---- MODULE Spec2Model ----
(***************************************************************************)
(* A model of the dive-computer library: the per-family dive parsers       *)
(* (set_data / get_datetime / get_field / samples_foreach over a byte      *)
(* blob) and the device-side dive enumeration (foreach) of the iDive and   *)
(* Suunto Common2 back ends.  Blobs are sequences of bytes; offsets are    *)
(* the zero-based offsets of the C code.                                   *)
(***************************************************************************)
EXTENDS Integers, Sequences, FiniteSets, TLC

\* The parser object: its family and construction parameters, the blob set
\* by set_data (installed: whether set_data has been called; primed: whether
\* the parser held values of an earlier blob when set_data was called last),
\* its cached fields, the position of the caller and what the last call
\* returned.  dev is the state of a device enumeration (foreach).
VARIABLES family, model, data, installed, primed, cache, pc, ret, dev

pvars == <<family, model, data, installed, primed, cache, pc, ret>>

vars == <<family, model, data, installed, primed, cache, pc, ret, dev>>

(***************************************************************************)
(* Bounds of the exploration.                                              *)
(***************************************************************************)
MaxSamples == 2

\* get_field is called with flags 0 .. MaxFlags.
MaxFlags == 1

(***************************************************************************)
(* Byte-array helpers.                                                     *)
(***************************************************************************)
Pow2(n) == 2 ^ n

\* The model checker's integers are 32-bit signed.  An unsigned 32-bit
\* quantity of 2^31 or more is held as its two's complement x - 2^32, and
\* compared with ULt / ULe.  A sum that leaves the signed range is beyond
\* the blobs explored and stops the check.
U32(x) == x

\* a < b and a <= b of two unsigned 32-bit quantities
ULt(a, b) == IF (a < 0) = (b < 0) THEN a < b ELSE b < 0

ULe(a, b) == a = b \/ ULt(a, b)

\* x / 2 of an unsigned 32-bit quantity x: at most 2^31 - 1.
UHalf(x) ==
    IF x >= 0 THEN x \div 2 ELSE ((x \div 2) + 1073741824) + 1073741824

\* dc_ticks_t is a signed 64-bit integer.  The ticks systime - x, x being
\* an unsigned 32-bit quantity that the subtraction widens to 64 bits, are
\* held as high * 2^30 + low with low in 0 .. 2^30 - 1.
ticks_minus(systime, x) ==
    LET B == 1073741824
        xhigh == (x \div B) % 4
        xlow == x % B
    IN [high |-> (systime \div B) - xhigh
                    - (IF systime % B < xlow THEN 1 ELSE 0),
        low |-> ((systime % B) - xlow) % B]

\* Ticks that fit the integers of the model, held as ticks_minus holds them.
ticks_of(x) == [high |-> x \div 1073741824, low |-> x % 1073741824]

\* a <= b of two dc_ticks_t values
TicksLe(a, b) == a.high < b.high \/ (a.high = b.high /\ a.low <= b.low)

\* data[i] of the C code; a read at or past the end of the blob yields
\* whatever byte g lies behind it.
Rd(d, i, g) == IF i >= 0 /\ i < Len(d) THEN d[i + 1] ELSE g

\* a[i] of a fixed-size C array; an index past its capacity reads whatever
\* value g lies behind the array.
ArrRd(a, i, g) == IF i >= 0 /\ i < Len(a) THEN a[i + 1] ELSE g

\* (signed short) x
int16(x) == IF x >= 32768 THEN x - 65536 ELSE x

\* (signed char) x
int8(x) == IF x >= 128 THEN x - 256 ELSE x

array_uint16_le(d, o, g) == Rd(d, o, g) + 256 * Rd(d, o + 1, g)

array_uint16_be(d, o, g) == 256 * Rd(d, o, g) + Rd(d, o + 1, g)

array_uint32_be(d, o, g) ==
    16777216 * int8(Rd(d, o, g)) + 65536 * Rd(d, o + 1, g)
        + 256 * Rd(d, o + 2, g) + Rd(d, o + 3, g)

array_uint32_le(d, o, g) ==
    Rd(d, o, g) + 256 * Rd(d, o + 1, g) + 65536 * Rd(d, o + 2, g)
        + 16777216 * int8(Rd(d, o + 3, g))

bcd2dec(x) == (x \div 16) * 10 + (x % 16)

\* Bits lo .. lo+n-1 of x.
Bits(x, lo, n) == (x \div Pow2(lo)) % Pow2(n)

Zeros(n) == [i \in 1..n |-> 0]

Fill(n, b) == [i \in 1..n |-> b]

Patch(d, o, bytes) ==
    [i \in 1..Len(d) |->
        IF i - 1 >= o /\ i - 1 < o + Len(bytes) THEN bytes[i - o] ELSE d[i]]

LE16(v) == <<v % 256, (v \div 256) % 256>>

BE16(v) == <<(v \div 256) % 256, v % 256>>

LE32(v) == <<v % 256, (v \div 256) % 256, (v \div 65536) % 256,
             (v \div 16777216) % 256>>

RECURSIVE Concat(_)
Concat(ss) == IF ss = <<>> THEN <<>> ELSE Head(ss) \o Concat(Tail(ss))

\* All sequences over S of length at most n.
SeqsUpTo(S, n) == UNION {[1..k -> S] : k \in 0..n}

\* true when every byte of d[o .. o+n-1] equals b
array_isequal(d, o, n, b, g) == \A k \in 0..(n - 1) : Rd(d, o + k, g) = b

\* The TIME values of a sample stream, in order of emission.
Times(stream) == SelectSeq(stream, LAMBDA s : s[1] = "TIME")

NonDecreasing(stream) ==
    \A i \in 1..Len(stream) : \A j \in i..Len(stream) :
        ULe(stream[i][2], stream[j][2])

(***************************************************************************)
(* dc_field_type_t and the results of the parser operations.               *)
(***************************************************************************)
FieldTypes ==
    {"DIVETIME", "MAXDEPTH", "AVGDEPTH", "GASMIX_COUNT", "GASMIX",
     "SALINITY", "ATMOSPHERIC", "TEMPERATURE_SURFACE",
     "TEMPERATURE_MINIMUM", "TEMPERATURE_MAXIMUM", "TANK_COUNT", "TANK",
     "DIVEMODE", "STRING"}

None == "none"

FieldResult(status, value, c) == [status |-> status, value |-> value, cache |-> c]

WalkResult(status, stream, c) == [status |-> status, stream |-> stream, cache |-> c]

(***************************************************************************)
(* DiveSystem iDive parser (divesystem_idive_parser.c).                    *)
(***************************************************************************)
IDIVE_SZ_HEADER == 50

IDIVE_SZ_SAMPLE == 42

IDIVE_NGASMIXES == 8

divesystem_idive_parser_create ==
    [cached |-> 0, divetime |-> 0, maxdepth |-> 0, ngasmixes |-> 0,
     oxygen |-> Zeros(IDIVE_NGASMIXES), helium |-> Zeros(IDIVE_NGASMIXES)]

divesystem_idive_parser_set_data(c, d) ==
    [cached |-> 0, divetime |-> 0, maxdepth |-> 0, ngasmixes |-> 0,
     oxygen |-> Zeros(IDIVE_NGASMIXES), helium |-> Zeros(IDIVE_NGASMIXES)]

divesystem_idive_parser_get_datetime(d, g) ==
    IF Len(d) < IDIVE_SZ_HEADER
    THEN [status |-> "DATAFORMAT", value |-> None]
    ELSE [status |-> "SUCCESS", value |-> array_uint32_le(d, 7, g)]

\* A variant of the search that finds no mix of the list.
idive_find_gasmix_missing(oxygen, helium, n, o2, he, i) == n

\* Index of the mix (o2, he) in the first n entries of the list, or n.
RECURSIVE idive_find_gasmix(_, _, _, _, _, _)
idive_find_gasmix(oxygen, helium, n, o2, he, i) ==
    IF i < n /\ ~(o2 = oxygen[i + 1] /\ he = helium[i + 1])
    THEN idive_find_gasmix(oxygen, helium, n, o2, he, i + 1)
    ELSE i

\* A variant of the check that accepts every timestamp.
idive_timestamp_unchecked(timestamp, time) == FALSE

\* The check on the timestamp of a sample: it must lie after the previous one.
idive_timestamp_invalid(timestamp, time) == ULe(timestamp, time)

\* The loop of samples_foreach; s holds the locals of the function.
RECURSIVE idive_samples_loop(_, _, _, _, _)
idive_samples_loop(d, g, cb, offset, s) ==
    IF ~(offset + IDIVE_SZ_SAMPLE <= Len(d))
    THEN [status |-> "SUCCESS", s |-> s]
    ELSE
      LET timestamp == array_uint32_le(d, offset + 2, g)
          depth == array_uint16_le(d, offset + 6, g)
          temperature == int16(array_uint16_le(d, offset + 8, g))
          o2 == Rd(d, offset + 10, g)
          he == Rd(d, offset + 11, g)
          deco == array_uint16_le(d, offset + 21, g)
          tts == array_uint16_le(d, offset + 23, g)
          cns == array_uint16_le(d, offset + 29, g)
          changed == o2 # s.o2_previous \/ he # s.he_previous
          i == idive_find_gasmix(s.oxygen, s.helium, s.ngasmixes, o2, he, 0)
          full == changed /\ i >= s.ngasmixes /\ i >= IDIVE_NGASMIXES
          added == changed /\ i >= s.ngasmixes /\ i < IDIVE_NGASMIXES
          head == <<<<"TIME", timestamp>>, <<"DEPTH", depth>>,
                    <<"TEMPERATURE", temperature>>>>
          gas == IF changed
                 THEN <<<<"EVENT", "GASCHANGE2", o2 + 65536 * he>>>>
                 ELSE <<>>
          dec == IF tts # 65535
                 THEN <<<<"DECO", IF deco # 0 THEN "DECOSTOP" ELSE "NDL",
                          IF deco # 0 THEN deco ELSE 0, tts>>>>
                 ELSE <<>>
          tail == gas \o dec \o <<<<"CNS", cns>>>>
      IN IF idive_timestamp_invalid(timestamp, s.time)
         THEN [status |-> "DATAFORMAT", s |-> s]
         ELSE IF full
         THEN [status |-> "DATAFORMAT",
               s |-> [s EXCEPT !.time = timestamp,
                         !.maxdepth = IF @ < depth THEN depth ELSE @,
                         !.stream = IF cb THEN @ \o head ELSE @]]
         ELSE idive_samples_loop(d, g, cb, offset + IDIVE_SZ_SAMPLE,
               [time |-> timestamp,
                maxdepth |-> IF s.maxdepth < depth THEN depth ELSE s.maxdepth,
                ngasmixes |-> IF added THEN i + 1 ELSE s.ngasmixes,
                oxygen |-> IF added THEN [s.oxygen EXCEPT ![i + 1] = o2]
                                    ELSE s.oxygen,
                helium |-> IF added THEN [s.helium EXCEPT ![i + 1] = he]
                                    ELSE s.helium,
                o2_previous |-> IF changed THEN o2 ELSE s.o2_previous,
                he_previous |-> IF changed THEN he ELSE s.he_previous,
                stream |-> IF cb THEN s.stream \o head \o tail ELSE s.stream])

divesystem_idive_parser_samples_foreach(c, d, cb, g) ==
    LET r == idive_samples_loop(d, g, cb, IDIVE_SZ_HEADER,
                [time |-> 0, maxdepth |-> 0, ngasmixes |-> 0,
                 oxygen |-> Zeros(IDIVE_NGASMIXES),
                 helium |-> Zeros(IDIVE_NGASMIXES),
                 o2_previous |-> -1, he_previous |-> -1,
                 stream |-> <<>>])
    IN IF r.status # "SUCCESS"
       THEN WalkResult(r.status, r.s.stream, c)
       ELSE WalkResult("SUCCESS", r.s.stream,
              [cached |-> 1, divetime |-> r.s.time, maxdepth |-> r.s.maxdepth,
               ngasmixes |-> r.s.ngasmixes,
               oxygen |-> [k \in 1..IDIVE_NGASMIXES |->
                             IF k <= r.s.ngasmixes THEN r.s.oxygen[k]
                                                   ELSE c.oxygen[k]],
               helium |-> [k \in 1..IDIVE_NGASMIXES |->
                             IF k <= r.s.ngasmixes THEN r.s.helium[k]
                                                   ELSE c.helium[k]]])

divesystem_idive_parser_get_field(c, d, type, flags, hasvalue, g) ==
    IF Len(d) < IDIVE_SZ_HEADER THEN FieldResult("DATAFORMAT", None, c)
    ELSE
      LET w == IF c.cached = 0
               THEN divesystem_idive_parser_samples_foreach(c, d, FALSE, g)
               ELSE WalkResult("SUCCESS", <<>>, c)
          p == w.cache
      IN IF w.status # "SUCCESS" THEN FieldResult(w.status, None, p)
         ELSE IF ~hasvalue THEN FieldResult("SUCCESS", None, p)
         ELSE CASE type = "DIVETIME" -> FieldResult("SUCCESS", p.divetime, p)
                [] type = "MAXDEPTH" -> FieldResult("SUCCESS", p.maxdepth, p)
                [] type = "GASMIX_COUNT" -> FieldResult("SUCCESS", p.ngasmixes, p)
                [] type = "GASMIX" ->
                     FieldResult("SUCCESS",
                        [helium |-> ArrRd(p.helium, flags, g),
                         oxygen |-> ArrRd(p.oxygen, flags, g)], p)
                [] type = "ATMOSPHERIC" ->
                     FieldResult("SUCCESS", array_uint16_le(d, 11, g), p)
                [] OTHER -> FieldResult("UNSUPPORTED", None, p)

\* One iDive sample record.
IdiveSample(ts, depth, o2, he, tts) ==
    Patch(Patch(Patch(Patch(Zeros(IDIVE_SZ_SAMPLE), 2, LE32(ts)),
        6, LE16(depth)), 10, <<o2, he>>), 23, LE16(tts))

IdiveSampleSet ==
    {IdiveSample(10, 100, 21, 0, 0), IdiveSample(9, 50, 21, 0, 65535),
     IdiveSample(20, 150, 32, 0, 5), IdiveSample(20, 120, 60, 60, 0),
     Zeros(IDIVE_SZ_SAMPLE)}

IdiveHeader == Patch(Patch(Zeros(IDIVE_SZ_HEADER), 7, LE32(1000)), 11, LE16(1013))

\* A dive of one sample per gas mix (o2, he) of a list, ten seconds apart.
IdiveGasDive(gases) ==
    IdiveHeader
      \o Concat([k \in 1..Len(gases) |->
                   IdiveSample(10 * k, 100, gases[k][1], gases[k][2], 0)])

\* Lists of gas mixes: one more distinct mix than the table holds; as many
\* as it holds, the first of them breathed again at the end; two mixes
\* alternating; mixes that differ in the helium only.
IdiveGasLists ==
    {[k \in 1..(IDIVE_NGASMIXES + 1) |-> <<20 + k, 0>>],
     [k \in 1..(IDIVE_NGASMIXES + 1) |->
        IF k <= IDIVE_NGASMIXES THEN <<20 + k, 0>> ELSE <<21, 0>>],
     <<<<21, 0>>, <<32, 0>>, <<21, 0>>, <<32, 0>>>>,
     <<<<21, 0>>, <<21, 35>>, <<21, 35>>, <<21, 0>>>>}

IdiveBlobs ==
    {IdiveHeader \o Concat(ss) : ss \in SeqsUpTo(IdiveSampleSet, MaxSamples)}
      \cup {SubSeq(IdiveHeader, 1, n) : n \in {0, 7, 49}}
      \cup {IdiveHeader \o IdiveSample(10, 100, 21, 0, 0) \o Zeros(5)}
      \cup {IdiveGasDive(gases) : gases \in IdiveGasLists}

(***************************************************************************)
(* Cressi Leonardo parser (cressi_leonardo_parser.c).  The parser keeps no *)
(* cache: every field is read from the header on each call.                *)
(***************************************************************************)
CRESSI_SZ_HEADER == 82

cressi_leonardo_parser_create == [cached |-> 0]

cressi_leonardo_parser_set_data(c, d) == c

cressi_leonardo_parser_get_datetime(d, g) ==
    IF Len(d) < CRESSI_SZ_HEADER
    THEN [status |-> "DATAFORMAT", value |-> None]
    ELSE [status |-> "SUCCESS",
          value |-> <<Rd(d, 8, g) + 2000, Rd(d, 9, g), Rd(d, 10, g),
                      Rd(d, 11, g), Rd(d, 12, g), 0>>]

cressi_leonardo_parser_get_field(c, d, type, flags, hasvalue, g) ==
    IF Len(d) < CRESSI_SZ_HEADER THEN FieldResult("DATAFORMAT", None, c)
    ELSE IF ~hasvalue THEN FieldResult("SUCCESS", None, c)
    ELSE CASE type = "DIVETIME" ->
                FieldResult("SUCCESS", U32(array_uint16_le(d, 6, g) * 20), c)
           [] type = "MAXDEPTH" ->
                FieldResult("SUCCESS", array_uint16_le(d, 32, g), c)
           [] type = "GASMIX_COUNT" -> FieldResult("SUCCESS", 1, c)
           [] type = "GASMIX" ->
                FieldResult("SUCCESS",
                    [helium |-> 0, oxygen |-> Rd(d, 25, g)], c)
           [] type = "TEMPERATURE_MINIMUM" ->
                FieldResult("SUCCESS", Rd(d, 34, g), c)
           [] OTHER -> FieldResult("UNSUPPORTED", None, c)

RECURSIVE cressi_samples_loop(_, _, _, _, _, _)
cressi_samples_loop(d, g, cb, offset, time, stream) ==
    IF ~(offset + 2 <= Len(d)) THEN stream
    ELSE
      LET value == array_uint16_le(d, offset, g)
          depth == value % 2048
          ascent == Bits(value, 14, 2)
          t == U32(time + 20)
          out == <<<<"TIME", t>>, <<"DEPTH", depth>>>>
                   \o (IF ascent # 0 THEN <<<<"EVENT", "ASCENT", ascent>>>>
                                     ELSE <<>>)
      IN cressi_samples_loop(d, g, cb, offset + 2, t,
                             IF cb THEN stream \o out ELSE stream)

cressi_leonardo_parser_samples_foreach(c, d, cb, g) ==
    WalkResult("SUCCESS",
               cressi_samples_loop(d, g, cb, CRESSI_SZ_HEADER, 0, <<>>), c)

\* A header recording a dive time of n intervals and an O2 percentage.
CressiHeader(n, o2) ==
    Patch(Patch(Patch(Zeros(CRESSI_SZ_HEADER), 6, LE16(n)), 25, <<o2>>),
          32, LE16(123))

CressiSampleSet == {LE16(100), LE16(16384 + 150), LE16(0)}

CressiBlobs ==
    {CressiHeader(h[1], h[2]) \o Concat(ss) :
        h \in {<<1, 21>>, <<2, 32>>, <<5, 200>>},
        ss \in SeqsUpTo(CressiSampleSet, MaxSamples)}
      \cup {SubSeq(CressiHeader(1, 21), 1, n) : n \in {0, 81}}
      \cup {CressiHeader(1, 21) \o <<100>>}

(***************************************************************************)
(* Suunto Eon / Solution / Spyder parser (suunto_eon_parser.c).            *)
(***************************************************************************)
suunto_eon_parser_create ==
    [cached |-> 0, divetime |-> 0, maxdepth |-> 0, marker |-> 0, nitrox |-> 0]

\* A variant of set_data that leaves the cached fields in place.
suunto_eon_parser_set_data_keep(c, d) == c

suunto_eon_parser_set_data(c, d) ==
    [cached |-> 0, divetime |-> 0, maxdepth |-> 0, marker |-> 0, nitrox |-> 0]

\* The sample loop of suunto_eon_parser_cache.
RECURSIVE eon_cache_loop(_, _, _, _, _, _)
eon_cache_loop(d, g, offset, depth, maxdepth, nsamples) ==
    IF ~(offset < Len(d) /\ Rd(d, offset, g) # 128)
    THEN [offset |-> offset, maxdepth |-> maxdepth, nsamples |-> nsamples]
    ELSE
      LET value == Rd(d, offset, g)
          isdepth == value < 125 \/ value > 130
          nd == IF isdepth THEN U32(depth + int8(value)) ELSE depth
      IN eon_cache_loop(d, g, offset + 1, nd,
            IF isdepth /\ ULt(maxdepth, nd) THEN nd ELSE maxdepth,
            IF isdepth THEN nsamples + 1 ELSE nsamples)

suunto_eon_parser_cache(spyder, c, d, g) ==
    IF c.cached # 0 THEN [status |-> "SUCCESS", cache |-> c]
    ELSE IF Len(d) < 13 THEN [status |-> "DATAFORMAT", cache |-> c]
    ELSE
      LET nitrox == IF spyder = 0 /\ Rd(d, 4, g) >= 128 THEN 1 ELSE 0
          interval == Rd(d, 3, g)
          r == eon_cache_loop(d, g, 11, 0, 0, 0)
          marker == r.offset
      IN IF marker + 2 >= Len(d) \/ Rd(d, marker, g) # 128
         THEN [status |-> "DATAFORMAT", cache |-> c]
         ELSE [status |-> "SUCCESS",
               cache |-> [cached |-> 1,
                          divetime |-> U32(r.nsamples * interval),
                          maxdepth |-> r.maxdepth, marker |-> marker,
                          nitrox |-> nitrox]]

suunto_eon_parser_get_datetime(spyder, d, g) ==
    IF Len(d) < 6 + 5 THEN [status |-> "DATAFORMAT", value |-> None]
    ELSE
      LET p(i) == Rd(d, 6 + i, g)
      IN [status |-> "SUCCESS",
          value |->
            IF spyder # 0
            THEN <<p(0) + (IF p(0) < 90 THEN 2000 ELSE 1900),
                   p(1), p(2), p(3), p(4), 0>>
            ELSE <<bcd2dec(p(0)) + (IF bcd2dec(p(0)) < 85 THEN 2000 ELSE 1900),
                   bcd2dec(p(1)), bcd2dec(p(2)), bcd2dec(p(3)),
                   bcd2dec(p(4)), 0>>]

suunto_eon_parser_get_field(spyder, c, d, type, flags, hasvalue, g) ==
    LET rc == suunto_eon_parser_cache(spyder, c, d, g)
        p == rc.cache
        oxygen == IF p.nitrox # 0 THEN Rd(d, 5, g) ELSE 21
        beginpressure == IF p.nitrox # 0 THEN 0 ELSE Rd(d, 5, g) * 2
        endpressure == IF p.nitrox # 0 THEN 0 ELSE Rd(d, p.marker + 2, g) * 2
    IN IF rc.status # "SUCCESS" THEN FieldResult(rc.status, None, p)
       ELSE IF ~hasvalue THEN FieldResult("SUCCESS", None, p)
       ELSE CASE type = "DIVETIME" -> FieldResult("SUCCESS", p.divetime, p)
              [] type = "MAXDEPTH" -> FieldResult("SUCCESS", p.maxdepth, p)
              [] type = "GASMIX_COUNT" -> FieldResult("SUCCESS", 1, p)
              [] type = "GASMIX" ->
                   FieldResult("SUCCESS", [helium |-> 0, oxygen |-> oxygen], p)
              [] type = "TANK_COUNT" ->
                   FieldResult("SUCCESS",
                      IF beginpressure = 0 /\ endpressure = 0 THEN 0 ELSE 1, p)
              [] type = "TANK" ->
                   FieldResult("SUCCESS",
                      [beginpressure |-> beginpressure,
                       endpressure |-> endpressure], p)
              [] type = "TEMPERATURE_MINIMUM" ->
                   FieldResult("SUCCESS",
                      IF spyder # 0 THEN int8(Rd(d, p.marker + 1, g))
                                    ELSE Rd(d, p.marker + 1, g) - 40, p)
              [] OTHER -> FieldResult("UNSUPPORTED", None, p)

eon_event(value) ==
    CASE value = 125 -> <<<<"EVENT", "SURFACE", 0>>>>
      [] value = 126 -> <<<<"EVENT", "DECOSTOP", 0>>>>
      [] value = 127 -> <<<<"EVENT", "CEILING", 0>>>>
      [] value = 129 -> <<<<"EVENT", "ASCENT", 0>>>>
      [] OTHER -> <<>>

\* The sample loop of suunto_eon_parser_samples_foreach and its epilogue.
RECURSIVE eon_samples_loop(_, _, _, _, _, _, _)
eon_samples_loop(d, g, offset, depth, time, complete, stream) ==
    IF ~(offset < Len(d) /\ Rd(d, offset, g) # 128)
    THEN stream
           \o (IF complete
               THEN <<<<"TIME", U32(time + Rd(d, 3, g))>>>> ELSE <<>>)
           \o <<<<"DEPTH", 0>>>>
    ELSE
      LET value == Rd(d, offset, g)
          t == IF complete THEN U32(time + Rd(d, 3, g)) ELSE time
          tm == IF complete THEN <<<<"TIME", t>>>> ELSE <<>>
          isdepth == value < 125 \/ value > 130
          nd == IF isdepth THEN U32(depth + int8(value)) ELSE depth
      IN eon_samples_loop(d, g, offset + 1, nd, t, isdepth,
            stream \o tm
              \o (IF isdepth THEN <<<<"DEPTH", nd>>>> ELSE eon_event(value)))

suunto_eon_parser_samples_foreach(spyder, c, d, cb, g) ==
    LET rc == suunto_eon_parser_cache(spyder, c, d, g)
    IN IF rc.status # "SUCCESS" THEN WalkResult(rc.status, <<>>, rc.cache)
       ELSE WalkResult("SUCCESS",
              IF cb
              THEN eon_samples_loop(d, g, 11, 0, 0, TRUE,
                                    <<<<"TIME", 0>>, <<"DEPTH", 0>>>>)
              ELSE <<>>,
              rc.cache)

EonHeader(interval, b4, b5) ==
    Patch(Patch(Zeros(11), 3, <<interval, b4, b5>>), 6, <<21, 6, 18, 9, 48>>)

EonSampleSet == {5, 251, 125}

EonBlobs ==
    {EonHeader(h[1], h[2], h[3]) \o ss \o <<128, 60, 50>> :
        h \in {<<20, 0, 100>>, <<10, 128, 32>>, <<20, 128, 200>>},
        ss \in SeqsUpTo(EonSampleSet, MaxSamples)}
      \cup {SubSeq(EonHeader(20, 0, 100), 1, n) : n \in {0, 10}}
      \cup {EonHeader(20, 0, 100) \o <<5>>,
            EonHeader(20, 0, 100) \o <<5, 5, 5>>,
            EonHeader(20, 0, 100) \o <<5, 128, 60>>}

(***************************************************************************)
(* Reefnet Sensus Ultra parser (reefnet_sensusultra_parser.c).  The model  *)
(* parameter carries the clock pair (devtime, systime) given to create.    *)
(***************************************************************************)
reefnet_sensusultra_parser_create == [cached |-> 0, divetime |-> 0, maxdepth |-> 0]

reefnet_sensusultra_parser_set_data(c, d) ==
    [cached |-> 0, divetime |-> 0, maxdepth |-> 0]

reefnet_sensusultra_parser_get_datetime(m, d, g) ==
    IF Len(d) < 4 + 4 THEN [status |-> "DATAFORMAT", value |-> None]
    ELSE [status |-> "SUCCESS",
          value |-> ticks_minus(m.systime,
                                U32(m.devtime - array_uint32_le(d, 4, g)))]

\* The statistics loop of get_field.
RECURSIVE sensusultra_cache_loop(_, _, _, _, _, _)
sensusultra_cache_loop(d, g, offset, threshold, maxdepth, nsamples) ==
    IF ~(offset + 4 <= Len(d) /\ ~array_isequal(d, offset, 4, 255, g))
    THEN [maxdepth |-> maxdepth, nsamples |-> nsamples]
    ELSE
      LET depth == array_uint16_le(d, offset + 2, g)
      IN sensusultra_cache_loop(d, g, offset + 4, threshold,
            IF depth >= threshold /\ depth > maxdepth THEN depth ELSE maxdepth,
            IF depth >= threshold THEN nsamples + 1 ELSE nsamples)

reefnet_sensusultra_parser_get_field(c, d, type, flags, hasvalue, g) ==
    IF Len(d) < 20 THEN FieldResult("DATAFORMAT", None, c)
    ELSE
      LET r == sensusultra_cache_loop(d, g, 16, array_uint16_le(d, 10, g), 0, 0)
          p == IF c.cached = 0
               THEN [cached |-> 1,
                     divetime |-> U32(r.nsamples * array_uint16_le(d, 8, g)),
                     maxdepth |-> r.maxdepth]
               ELSE c
      IN IF ~hasvalue THEN FieldResult("SUCCESS", None, p)
         ELSE CASE type = "DIVETIME" -> FieldResult("SUCCESS", p.divetime, p)
                [] type = "MAXDEPTH" -> FieldResult("SUCCESS", p.maxdepth, p)
                [] type = "GASMIX_COUNT" -> FieldResult("SUCCESS", 0, p)
                [] type = "DIVEMODE" -> FieldResult("SUCCESS", "GAUGE", p)
                [] OTHER -> FieldResult("UNSUPPORTED", None, p)

RECURSIVE sensusultra_samples_loop(_, _, _, _, _, _)
sensusultra_samples_loop(d, g, offset, interval, time, stream) ==
    IF ~(offset + 4 <= Len(d) /\ ~array_isequal(d, offset, 4, 255, g))
    THEN stream
    ELSE
      LET t == U32(time + interval)
      IN sensusultra_samples_loop(d, g, offset + 4, interval, t,
            stream \o <<<<"TIME", t>>,
                        <<"TEMPERATURE", array_uint16_le(d, offset, g)>>,
                        <<"DEPTH", array_uint16_le(d, offset + 2, g)>>>>)

\* The search for the dive header, and the walk that follows it.
RECURSIVE sensusultra_header_loop(_, _, _)
sensusultra_header_loop(d, g, offset) ==
    IF ~(offset + 4 <= Len(d)) THEN [status |-> "SUCCESS", stream |-> <<>>]
    ELSE IF array_isequal(d, offset, 4, 0, g)
    THEN IF offset + 16 > Len(d)
         THEN [status |-> "DATAFORMAT", stream |-> <<>>]
         ELSE [status |-> "SUCCESS",
               stream |-> sensusultra_samples_loop(d, g, offset + 16,
                             array_uint16_le(d, offset + 8, g), 0, <<>>)]
    ELSE sensusultra_header_loop(d, g, offset + 1)

reefnet_sensusultra_parser_samples_foreach(c, d, cb, g) ==
    LET r == sensusultra_header_loop(d, g, 0)
    IN WalkResult(r.status, IF cb THEN r.stream ELSE <<>>, c)

SensusUltraHeader(interval, threshold) ==
    Patch(Patch(Patch(Zeros(16), 4, LE32(500)), 8, LE16(interval)),
          10, LE16(threshold))

SensusUltraSampleSet == {LE16(29000) \o LE16(1500), LE16(29100) \o LE16(900)}

SensusUltraBlobs ==
    {SensusUltraHeader(h, 1000) \o Concat(ss) \o tl :
        h \in {10, 1}, ss \in SeqsUpTo(SensusUltraSampleSet, MaxSamples),
        tl \in {Fill(4, 255), <<>>}}
      \cup {SubSeq(SensusUltraHeader(10, 1000), 1, n) : n \in {0, 7, 12}}
      \cup {SensusUltraHeader(10, 1000) \o <<1, 2, 3>>,
            Fill(20, 1),
            <<7>> \o SensusUltraHeader(10, 1000) \o LE16(29000) \o LE16(1500)}

(***************************************************************************)
(* Reefnet Sensus Pro parser (reefnet_sensuspro_parser.c).                 *)
(***************************************************************************)
reefnet_sensuspro_parser_create == [cached |-> 0, divetime |-> 0, maxdepth |-> 0]

reefnet_sensuspro_parser_set_data(c, d) ==
    [cached |-> 0, divetime |-> 0, maxdepth |-> 0]

reefnet_sensuspro_parser_get_datetime(m, d, g) ==
    IF Len(d) < 6 + 4 THEN [status |-> "DATAFORMAT", value |-> None]
    ELSE [status |-> "SUCCESS",
          value |-> ticks_minus(m.systime,
                                U32(m.devtime - array_uint32_le(d, 6, g)))]

RECURSIVE sensuspro_cache_loop(_, _, _, _, _)
sensuspro_cache_loop(d, g, offset, maxdepth, nsamples) ==
    IF ~(offset + 2 <= Len(d) /\ ~array_isequal(d, offset, 2, 255, g))
    THEN [maxdepth |-> maxdepth, nsamples |-> nsamples]
    ELSE
      LET depth == array_uint16_le(d, offset, g) % 512
      IN sensuspro_cache_loop(d, g, offset + 2,
            IF depth > maxdepth THEN depth ELSE maxdepth, nsamples + 1)

reefnet_sensuspro_parser_get_field(c, d, type, flags, hasvalue, g) ==
    IF Len(d) < 12 THEN FieldResult("DATAFORMAT", None, c)
    ELSE
      LET r == sensuspro_cache_loop(d, g, 10, 0, 0)
          p == IF c.cached = 0
               THEN [cached |-> 1,
                     divetime |-> U32(r.nsamples * array_uint16_le(d, 4, g)),
                     maxdepth |-> r.maxdepth]
               ELSE c
      IN IF ~hasvalue THEN FieldResult("SUCCESS", None, p)
         ELSE CASE type = "DIVETIME" -> FieldResult("SUCCESS", p.divetime, p)
                [] type = "MAXDEPTH" -> FieldResult("SUCCESS", p.maxdepth, p)
                [] type = "GASMIX_COUNT" -> FieldResult("SUCCESS", 0, p)
                [] type = "DIVEMODE" -> FieldResult("SUCCESS", "GAUGE", p)
                [] OTHER -> FieldResult("UNSUPPORTED", None, p)

RECURSIVE sensuspro_samples_loop(_, _, _, _, _, _)
sensuspro_samples_loop(d, g, offset, interval, time, stream) ==
    IF ~(offset + 2 <= Len(d) /\ ~array_isequal(d, offset, 2, 255, g))
    THEN stream
    ELSE
      LET value == array_uint16_le(d, offset, g)
          t == U32(time + interval)
      IN sensuspro_samples_loop(d, g, offset + 2, interval, t,
            stream \o <<<<"TIME", t>>, <<"TEMPERATURE", Bits(value, 9, 7)>>,
                        <<"DEPTH", value % 512>>>>)

RECURSIVE sensuspro_header_loop(_, _, _)
sensuspro_header_loop(d, g, offset) ==
    IF ~(offset + 4 <= Len(d)) THEN [status |-> "SUCCESS", stream |-> <<>>]
    ELSE IF array_isequal(d, offset, 4, 0, g)
    THEN IF offset + 10 > Len(d)
         THEN [status |-> "DATAFORMAT", stream |-> <<>>]
         ELSE [status |-> "SUCCESS",
               stream |-> sensuspro_samples_loop(d, g, offset + 10,
                             array_uint16_le(d, offset + 4, g), 0, <<>>)]
    ELSE sensuspro_header_loop(d, g, offset + 1)

reefnet_sensuspro_parser_samples_foreach(c, d, cb, g) ==
    LET r == sensuspro_header_loop(d, g, 0)
    IN WalkResult(r.status, IF cb THEN r.stream ELSE <<>>, c)

SensusProHeader(interval) ==
    Patch(Patch(Zeros(10), 4, LE16(interval)), 6, LE32(500))

SensusProSampleSet == {LE16(40 * 512 + 33), LE16(41 * 512 + 60)}

SensusProBlobs ==
    {SensusProHeader(h) \o Concat(ss) \o tl :
        h \in {10, 1}, ss \in SeqsUpTo(SensusProSampleSet, MaxSamples),
        tl \in {Fill(2, 255), <<>>}}
      \cup {SubSeq(SensusProHeader(10), 1, n) : n \in {0, 5, 9}}
      \cup {SensusProHeader(10) \o <<1>>, Fill(12, 1),
            <<7>> \o SensusProHeader(10) \o LE16(40 * 512 + 33)}

(***************************************************************************)
(* Shearwater Predator / Petrel parser (shearwater_predator_parser.c).     *)
(* The model parameter is [petrel, serial].  Depths of the sample stream   *)
(* are in units of 1e-5 m, so that depth * FEET / 10.0 is the integer      *)
(* depth * FEET_E4 and depth / 10.0 is depth * 10000; the maximum depth    *)
(* of get_field is in units of 1e-4 m.                                     *)
(***************************************************************************)
SZ_BLOCK == 128

SZ_SAMPLE_PREDATOR == 16

SZ_SAMPLE_PETREL == 32

IMPERIAL == 1

SHEARWATER_NGASMIXES == 10

\* FEET of units.h, in 1e-4 m.
FEET_E4 == 3048

shearwater_predator_parser_create ==
    [cached |-> 0, ngasmixes |-> 0, oxygen |-> Zeros(SHEARWATER_NGASMIXES),
     helium |-> Zeros(SHEARWATER_NGASMIXES)]

shearwater_predator_parser_set_data(c, d) ==
    [cached |-> 0, ngasmixes |-> 0, oxygen |-> Zeros(SHEARWATER_NGASMIXES),
     helium |-> Zeros(SHEARWATER_NGASMIXES)]

shearwater_predator_parser_get_datetime(d, g) ==
    IF Len(d) < 2 * SZ_BLOCK THEN [status |-> "DATAFORMAT", value |-> None]
    ELSE [status |-> "SUCCESS", value |-> array_uint32_be(d, 12, g)]

\* The gas mix loop of shearwater_predator_parser_cache.
RECURSIVE shearwater_gas_loop(_, _, _, _)
shearwater_gas_loop(d, g, i, s) ==
    IF i >= SHEARWATER_NGASMIXES THEN s
    ELSE
      LET o2 == Rd(d, 20 + i, g)
          he == Rd(d, 30 + i, g)
      IN IF o2 = 0 /\ he = 0 THEN shearwater_gas_loop(d, g, i + 1, s)
         ELSE shearwater_gas_loop(d, g, i + 1,
                [ngasmixes |-> s.ngasmixes + 1,
                 oxygen |-> [s.oxygen EXCEPT ![s.ngasmixes + 1] = o2],
                 helium |-> [s.helium EXCEPT ![s.ngasmixes + 1] = he]])

shearwater_predator_parser_cache(c, d, g) ==
    IF c.cached # 0 THEN c
    ELSE
      LET s == shearwater_gas_loop(d, g, 0,
                 [ngasmixes |-> 0, oxygen |-> Zeros(SHEARWATER_NGASMIXES),
                  helium |-> Zeros(SHEARWATER_NGASMIXES)])
      IN [cached |-> 1, ngasmixes |-> s.ngasmixes,
          oxygen |-> [k \in 1..SHEARWATER_NGASMIXES |->
                        IF k <= s.ngasmixes THEN s.oxygen[k] ELSE c.oxygen[k]],
          helium |-> [k \in 1..SHEARWATER_NGASMIXES |->
                        IF k <= s.ngasmixes THEN s.helium[k] ELSE c.helium[k]]]

\* The offset of the footer record, or -1 when the blob is too short.
shearwater_footer(m, d, g) ==
    IF Len(d) < 2 * SZ_BLOCK THEN -1
    ELSE IF m.petrel # 0 \/ array_uint16_be(d, Len(d) - SZ_BLOCK, g) = 65533
    THEN IF Len(d) < 3 * SZ_BLOCK THEN -1 ELSE Len(d) - 2 * SZ_BLOCK
    ELSE Len(d) - SZ_BLOCK

shearwater_predator_parser_get_field(m, c, d, type, flags, hasvalue, g) ==
    LET footer == shearwater_footer(m, d, g)
        units == Rd(d, 8, g)
        p == shearwater_predator_parser_cache(c, d, g)
    IN IF footer < 0 THEN FieldResult("DATAFORMAT", None, c)
       ELSE IF ~hasvalue THEN FieldResult("SUCCESS", None, p)
       ELSE CASE type = "DIVETIME" ->
                   FieldResult("SUCCESS", array_uint16_be(d, footer + 6, g) * 60, p)
              [] type = "MAXDEPTH" ->
                   FieldResult("SUCCESS",
                      IF units = IMPERIAL
                      THEN array_uint16_be(d, footer + 4, g) * FEET_E4
                      ELSE array_uint16_be(d, footer + 4, g) * 10000, p)
              [] type = "GASMIX_COUNT" -> FieldResult("SUCCESS", p.ngasmixes, p)
              [] type = "GASMIX" ->
                   FieldResult("SUCCESS",
                      [helium |-> ArrRd(p.helium, flags, g),
                       oxygen |-> ArrRd(p.oxygen, flags, g)], p)
              [] type = "SALINITY" ->
                   FieldResult("SUCCESS",
                      [type |-> IF array_uint16_be(d, 83, g) = 1000
                                THEN "FRESH" ELSE "SALT",
                       density |-> array_uint16_be(d, 83, g)], p)
              [] type = "ATMOSPHERIC" ->
                   FieldResult("SUCCESS", array_uint16_be(d, 47, g), p)
              [] type = "STRING" ->
                   (CASE flags = 0 ->
                          FieldResult("SUCCESS",
                             [desc |-> "Battery at end", value |-> Rd(d, 9, g)], p)
                     [] flags = 1 ->
                          FieldResult("SUCCESS",
                             [desc |-> "Serial", value |-> m.serial], p)
                     [] flags = 2 ->
                          FieldResult("SUCCESS",
                             [desc |-> "FW Version", value |-> Rd(d, 19, g)], p)
                     [] OTHER -> FieldResult("UNSUPPORTED", None, p))
              [] OTHER -> FieldResult("UNSUPPORTED", None, p)

\* A conversion that takes every depth for a metric one.
shearwater_depth_metric(units, depth) == depth * 10000

\* sample.depth: depth * FEET / 10.0 when the units are IMPERIAL, else
\* depth / 10.0; in units of 1e-5 m.
shearwater_depth(units, depth) ==
    IF units = IMPERIAL THEN depth * FEET_E4 ELSE depth * 10000

RECURSIVE shearwater_samples_loop(_, _, _, _, _, _, _, _)
shearwater_samples_loop(m, d, g, footer, offset, time, prev, stream) ==
    LET samplesize == IF m.petrel # 0 THEN SZ_SAMPLE_PETREL
                                      ELSE SZ_SAMPLE_PREDATOR
    IN IF ~(offset < footer) THEN stream
       ELSE IF array_isequal(d, offset, samplesize, 0, g)
       THEN shearwater_samples_loop(m, d, g, footer, offset + samplesize,
                                    time, prev, stream)
       ELSE
         LET t == U32(time + 10)
             units == Rd(d, 8, g)
             depth == array_uint16_be(d, offset, g)
             o2 == Rd(d, offset + 7, g)
             he == Rd(d, offset + 8, g)
             decostop == array_uint16_be(d, offset + 2, g)
             out == <<<<"TIME", t>>,
                      <<"DEPTH", shearwater_depth(units, depth)>>,
                      <<"TEMPERATURE", units, Rd(d, offset + 13, g)>>,
                      <<"PPO2", Rd(d, offset + 6, g)>>>>
                    \o (IF m.petrel # 0
                        THEN <<<<"CNS", Rd(d, offset + 22, g)>>>> ELSE <<>>)
                    \o (IF <<o2, he>> # prev
                        THEN <<<<"EVENT", "GASCHANGE2", o2 + 65536 * he>>>>
                        ELSE <<>>)
                    \o <<<<"DECO", IF decostop # 0 THEN "DECOSTOP" ELSE "NDL",
                           decostop, Rd(d, offset + 9, g) * 60>>>>
         IN shearwater_samples_loop(m, d, g, footer, offset + samplesize,
                                    t, <<o2, he>>, stream \o out)

shearwater_predator_parser_samples_foreach(m, c, d, cb, g) ==
    LET footer == shearwater_footer(m, d, g)
    IN IF footer < 0 THEN WalkResult("DATAFORMAT", <<>>, c)
       ELSE WalkResult("SUCCESS",
              IF cb THEN shearwater_samples_loop(m, d, g, footer, SZ_BLOCK,
                                                 0, <<0, 0>>, <<>>)
                    ELSE <<>>, c)

ShearwaterHeader(units, o2s, hes) ==
    Patch(Patch(Patch(Zeros(SZ_BLOCK), 8, <<units, 37>>), 20, o2s), 30, hes)

ShearwaterFooter(minutes) ==
    Patch(Patch(Zeros(SZ_BLOCK), 4, BE16(30)), 6, BE16(minutes))

ShearwaterSample(depth, o2, he) ==
    Patch(Patch(Patch(Zeros(SZ_SAMPLE_PREDATOR), 0, BE16(depth)), 6,
                <<90, o2, he>>), 13, <<20>>)

ShearwaterSampleSet ==
    {ShearwaterSample(100, 21, 0), ShearwaterSample(200, 50, 60),
     Zeros(SZ_SAMPLE_PREDATOR)}

ShearwaterBlobs ==
    {h \o Concat(ss) \o ShearwaterFooter(1) \o tl :
        h \in {ShearwaterHeader(0, <<21, 50>>, <<0, 60>>),
               ShearwaterHeader(1, <<32, 0, 200>>, <<0, 0, 10>>)},
        ss \in SeqsUpTo(ShearwaterSampleSet, MaxSamples),
        tl \in {<<>>, Patch(Zeros(SZ_BLOCK), 0, <<255, 253>>)}}
      \cup {Zeros(n) : n \in {0, 127, 255}}

(***************************************************************************)
(* sample_statistics_cb of the parser base: the callback that get_field of *)
(* the Oceanic parsers passes to samples_foreach.  divetime is the value   *)
(* of the last TIME sample, maxdepth the largest DEPTH sample.             *)
(***************************************************************************)
RECURSIVE sample_statistics_cb(_, _)
sample_statistics_cb(stream, st) ==
    IF stream = <<>> THEN st
    ELSE
      LET s == Head(stream)
      IN sample_statistics_cb(Tail(stream),
            CASE s[1] = "TIME" -> [st EXCEPT !.divetime = s[2]]
              [] s[1] = "DEPTH" ->
                   [st EXCEPT !.maxdepth = IF @ < s[2] THEN s[2] ELSE @]
              [] OTHER -> st)

SAMPLE_STATISTICS_INITIALIZER == [divetime |-> 0, maxdepth |-> 0]

(***************************************************************************)
(* Oceanic VT Pro parser (oceanic_vtpro_parser.c).                         *)
(***************************************************************************)
PAGESIZE == 16

oceanic_vtpro_parser_create == [cached |-> 0, divetime |-> 0, maxdepth |-> 0]

oceanic_vtpro_parser_set_data(c, d) ==
    [cached |-> 0, divetime |-> 0, maxdepth |-> 0]

oceanic_vtpro_parser_get_datetime(d, g) ==
    IF Len(d) < 8 THEN [status |-> "DATAFORMAT", value |-> None]
    ELSE
      LET p(i) == Rd(d, i, g)
          year == IF Len(d) < 40
                  THEN bcd2dec(p(4) % 16) + 2000
                  ELSE bcd2dec(Bits(p(32 + 3), 6, 2) * 16 + Bits(p(32 + 2), 4, 4))
                         + 2000
          hour == (bcd2dec(p(1) % 128) % 12) + (IF p(1) >= 128 THEN 12 ELSE 0)
      IN [status |-> "SUCCESS",
          value |-> <<year, Bits(p(4), 4, 4), bcd2dec(p(3)), hour,
                      bcd2dec(p(0)), 0>>]

vtpro_interval(d, g) ==
    LET code == Bits(Rd(d, 39, g), 4, 3)
    IN CASE code = 0 -> 2
         [] code = 1 -> 15
         [] code = 2 -> 30
         [] code = 3 -> 60
         [] OTHER -> 0

\* The minute timestamp stored in the sample at offset o.
vtpro_timestamp(d, o, g) ==
    bcd2dec(Rd(d, o + 1, g) % 16) * 60 + bcd2dec(Rd(d, o, g))

\* A variant of the look-ahead that counts no further sample.
vtpro_count_one(d, g, idx, current, count) == count

\* The look-ahead that counts the samples sharing the timestamp current.
RECURSIVE vtpro_count(_, _, _, _, _)
vtpro_count(d, g, idx, current, count) ==
    IF ~(idx + PAGESIZE \div 2 <= Len(d) - PAGESIZE) THEN count
    ELSE IF array_isequal(d, idx, PAGESIZE \div 2, 0, g)
    THEN vtpro_count(d, g, idx + PAGESIZE \div 2, current, count)
    ELSE IF vtpro_timestamp(d, idx, g) # current THEN count
    ELSE vtpro_count(d, g, idx + PAGESIZE \div 2, current, count + 1)

\* A variant that spreads the samples of one minute from its end backwards.
vtpro_depth_time_reversed(timestamp, i, count) ==
    (2 * count * timestamp * 60 + 120 * (count - i) + count) \div (2 * count)

\* time = timestamp * 60 + (i + 1) * 60.0 / count + 0.5, truncated.
vtpro_depth_time(timestamp, i, count) ==
    (2 * count * timestamp * 60 + 120 * (i + 1) + count) \div (2 * count)

\* The sample loop; s = [time, timestamp, count, i, stream].
RECURSIVE vtpro_samples_loop(_, _, _, _, _)
vtpro_samples_loop(d, g, interval, offset, s) ==
    IF ~(offset + PAGESIZE \div 2 <= Len(d) - PAGESIZE)
    THEN [status |-> "SUCCESS", stream |-> s.stream]
    ELSE IF array_isequal(d, offset, PAGESIZE \div 2, 0, g)
    THEN vtpro_samples_loop(d, g, interval, offset + PAGESIZE \div 2, s)
    ELSE
      LET current == vtpro_timestamp(d, offset, g)
          fresh == current # s.timestamp \/ s.count = 0
          i == IF fresh THEN 0 ELSE s.i + 1
          count == IF ~fresh THEN s.count
                   ELSE IF interval # 0 THEN 60 \div interval
                   ELSE vtpro_count(d, g, offset + PAGESIZE \div 2, current, 1)
          time == IF interval # 0 THEN U32(s.time + interval)
                  ELSE U32(vtpro_depth_time(current, i, count))
      IN IF current < s.timestamp
         THEN [status |-> "DATAFORMAT", stream |-> s.stream]
         ELSE IF interval # 0 /\ current > s.timestamp + 1
         THEN [status |-> "DATAFORMAT", stream |-> s.stream]
         ELSE IF interval # 0 /\ i >= count
         THEN vtpro_samples_loop(d, g, interval, offset + PAGESIZE \div 2,
                [s EXCEPT !.i = i, !.count = count])
         ELSE vtpro_samples_loop(d, g, interval, offset + PAGESIZE \div 2,
                [time |-> time, timestamp |-> current, count |-> count, i |-> i,
                 stream |-> s.stream \o
                    <<<<"TIME", time>>, <<"VENDOR", offset>>,
                      <<"DEPTH", Rd(d, offset + 3, g)>>,
                      <<"TEMPERATURE", Rd(d, offset + 6, g)>>>>])

\* The walk with every sample delivered, as a callback would see it.
vtpro_walk(d, g) ==
    IF Len(d) < (7 * PAGESIZE) \div 2
    THEN [status |-> "DATAFORMAT", stream |-> <<>>]
    ELSE vtpro_samples_loop(d, g, vtpro_interval(d, g), (5 * PAGESIZE) \div 2,
            [time |-> 0, timestamp |-> 0, count |-> 0, i |-> 0,
             stream |-> <<>>])

\* A variant whose delivery stops one sample short of the end of the walk.
oceanic_vtpro_parser_samples_foreach_short(c, d, cb, g) ==
    LET r == vtpro_walk(d, g)
    IN WalkResult(r.status,
          IF cb /\ Len(r.stream) >= 8
          THEN SubSeq(r.stream, 1, Len(r.stream) - 4)
          ELSE IF cb THEN r.stream ELSE <<>>, c)

oceanic_vtpro_parser_samples_foreach(c, d, cb, g) ==
    LET r == vtpro_walk(d, g)
    IN WalkResult(r.status, IF cb THEN r.stream ELSE <<>>, c)

oceanic_vtpro_parser_get_field(c, d, type, flags, hasvalue, g) ==
    IF Len(d) < (7 * PAGESIZE) \div 2 THEN FieldResult("DATAFORMAT", None, c)
    ELSE
      LET r == vtpro_walk(d, g)
          st == sample_statistics_cb(r.stream, SAMPLE_STATISTICS_INITIALIZER)
          p == IF c.cached = 0
               THEN [cached |-> 1, divetime |-> st.divetime,
                     maxdepth |-> st.maxdepth]
               ELSE c
          footer == Len(d) - PAGESIZE
      IN IF c.cached = 0 /\ r.status # "SUCCESS"
         THEN FieldResult(r.status, None, c)
         ELSE IF ~hasvalue THEN FieldResult("SUCCESS", None, p)
         ELSE CASE type = "DIVETIME" -> FieldResult("SUCCESS", p.divetime, p)
                [] type = "MAXDEPTH" ->
                     FieldResult("SUCCESS",
                        Rd(d, footer, g) + 256 * (Rd(d, footer + 1, g) % 16), p)
                [] type = "GASMIX_COUNT" -> FieldResult("SUCCESS", 1, p)
                [] type = "GASMIX" ->
                     FieldResult("SUCCESS",
                        [helium |-> 0,
                         oxygen |-> IF Rd(d, footer + 3, g) # 0
                                    THEN Rd(d, footer + 3, g) ELSE 21], p)
                [] OTHER -> FieldResult("UNSUPPORTED", None, p)

\* A header whose byte 0x27 selects the sample interval.
VtproHeader(code) ==
    Patch(Patch(Zeros(40), 0, <<48, 9, 0, 18, 100>>), 39, <<code * 16>>)

\* A sample stored at minute m (BCD) with a depth and a temperature.
VtproSample(m, depth) ==
    Patch(Patch(Zeros(8), 0, <<m, 0>>), 3, <<depth, 0, 0, 70>>)

VtproSampleSet ==
    {VtproSample(1, 30), VtproSample(2, 40), VtproSample(0, 10), Zeros(8)}

VtproFooter(o2) == Patch(Zeros(PAGESIZE), 0, <<45, 0, 0, o2>>)

\* Dives with more samples in a minute: four in minute 1 at an interval of
\* 30 s; three in minute 1, an empty sample among them, and eight in
\* minute 1, in depth-triggered mode.
VtproBlocks ==
    {<<2, <<VtproSample(1, 30), VtproSample(1, 31), VtproSample(1, 32),
            VtproSample(1, 33), VtproSample(2, 40)>>>>,
     <<1, [k \in 1..5 |-> VtproSample(1, 30 + k)]>>,
     <<4, <<VtproSample(1, 30), Zeros(8), VtproSample(1, 31),
            VtproSample(1, 32), VtproSample(2, 40)>>>>,
     <<4, [k \in 1..8 |-> VtproSample(1, 30 + k)]>>}

VtproBlobs ==
    {VtproHeader(h[1]) \o Concat(ss) \o VtproFooter(h[2]) :
        h \in {<<0, 0>>, <<3, 32>>, <<4, 200>>},
        ss \in SeqsUpTo(VtproSampleSet, MaxSamples)}
      \cup {SubSeq(VtproHeader(0), 1, n) : n \in {0, 7, 39}}
      \cup {VtproHeader(0) \o Zeros(15)}
      \cup {VtproHeader(h[1]) \o Concat(h[2]) \o VtproFooter(0) :
              h \in VtproBlocks}

(***************************************************************************)
(* Oceanic Atom 2 parser (oceanic_atom2_parser.c).  The model parameter is *)
(* [model, serial]; models are named as the #defines of the source.        *)
(***************************************************************************)
NORMAL == 0

GAUGE == 1

FREEDIVE == 2

atom2_headersize(mdl) ==
    CASE mdl \in {"DATAMASK", "COMPUMASK", "GEO", "GEO20", "VEO20", "VEO30",
                    "OCS", "PROPLUS3", "A300", "MANTA", "INSIGHT2", "ZEN"} ->
           (9 * PAGESIZE) \div 2 - PAGESIZE
      [] mdl \in {"VT4", "VT41"} -> (9 * PAGESIZE) \div 2 + PAGESIZE
      [] mdl = "TX1" -> (9 * PAGESIZE) \div 2 + 2 * PAGESIZE
      [] mdl = "ATOM1" -> (9 * PAGESIZE) \div 2 - 2 * PAGESIZE
      [] mdl = "F10" -> 3 * PAGESIZE
      [] mdl = "F11" -> 5 * PAGESIZE
      [] mdl \in {"A300CS", "VTX"} -> 5 * PAGESIZE
      [] OTHER -> (9 * PAGESIZE) \div 2

atom2_footersize(mdl) ==
    IF mdl \in {"F10", "F11"} THEN PAGESIZE \div 2 ELSE (2 * PAGESIZE) \div 2

oceanic_atom2_parser_create == [cached |-> 0, divetime |-> 0, maxdepth |-> 0]

oceanic_atom2_parser_set_data(c, d) ==
    [cached |-> 0, divetime |-> 0, maxdepth |-> 0]

\* The year 2010 workaround, with the host clock reading the year now.
atom2_fix_year(year, now) ==
    IF year < 2010 /\ now >= 2010
    THEN year + ((now \div 10) * 10
                   - (IF year % 10 > now % 10 THEN 10 ELSE 0)) - 2000
    ELSE year

\* oob records a read of p[i] with i at or past the size of the blob.
oceanic_atom2_parser_get_datetime(m, d, g, now) ==
    LET header == IF m.model \in {"F10", "F11"} THEN 32 ELSE 8
        p(i) == Rd(d, i, g)
        pm0 == p(1) >= 128
        f == CASE m.model \in {"OC1A", "OC1B", "OC1C", "OCS", "VT4", "VT41",
                               "ATOM3", "ATOM31", "A300AI", "OCI"} ->
                    [year |-> Bits(p(5), 5, 3) + Bits(p(7), 5, 3) * 8 + 2000,
                     month |-> p(3) % 16,
                     day |-> Bits(p(0), 7, 1) * 16 + Bits(p(3), 4, 4),
                     hour |-> bcd2dec(p(1) % 32),
                     minute |-> bcd2dec(p(0) % 128), pm |-> pm0, last |-> 7]
               [] m.model \in {"VT3", "VEO20", "VEO30", "DG03"} ->
                    [year |-> Bits(p(3), 5, 3) * 16 + (p(4) % 16) + 2000,
                     month |-> Bits(p(4), 4, 4), day |-> p(3) % 32,
                     hour |-> bcd2dec(p(1) % 32), minute |-> bcd2dec(p(0)),
                     pm |-> pm0, last |-> 4]
               [] m.model \in {"ZENAIR", "AMPHOS", "AMPHOSAIR", "VOYAGER2G"} ->
                    [year |-> (p(3) % 16) + 2000, month |-> Bits(p(7), 4, 4),
                     day |-> Bits(p(3), 7, 1) * 16 + Bits(p(5), 4, 4),
                     hour |-> bcd2dec(p(1) % 32), minute |-> bcd2dec(p(0)),
                     pm |-> pm0, last |-> 7]
               [] m.model \in {"F10", "F11"} ->
                    [year |-> bcd2dec(p(6)) + 2000, month |-> bcd2dec(p(7)),
                     day |-> bcd2dec(p(8)), hour |-> bcd2dec(p(13) % 128),
                     minute |-> bcd2dec(p(12)), pm |-> p(13) >= 128,
                     last |-> 13]
               [] m.model = "TX1" ->
                    [year |-> bcd2dec(p(13)) + 2000, month |-> bcd2dec(p(14)),
                     day |-> bcd2dec(p(15)), hour |-> p(11), minute |-> p(10),
                     pm |-> pm0, last |-> 15]
               [] m.model \in {"A300CS", "VTX"} ->
                    [year |-> p(10) + 2000, month |-> p(8), day |-> p(9),
                     hour |-> bcd2dec(p(1) % 32), minute |-> bcd2dec(p(0)),
                     pm |-> pm0, last |-> 10]
               [] OTHER ->
                    [year |-> bcd2dec(Bits(p(3), 6, 2) * 16 + (p(4) % 16)) + 2000,
                     month |-> Bits(p(4), 4, 4),
                     day |-> IF m.model \in {"T3A", "T3B", "GEO20", "PROPLUS3"}
                             THEN p(3) % 64 ELSE bcd2dec(p(3) % 64),
                     hour |-> bcd2dec(p(1) % 32), minute |-> bcd2dec(p(0)),
                     pm |-> pm0, last |-> 4]
    IN IF Len(d) < header
       THEN [status |-> "DATAFORMAT", value |-> None, oob |-> FALSE]
       ELSE [status |-> "SUCCESS",
             value |-> <<atom2_fix_year(f.year, now), f.month, f.day,
                         (f.hour % 12) + (IF f.pm THEN 12 ELSE 0),
                         f.minute, 0>>,
             oob |-> f.last >= Len(d)]

atom2_header(mdl) ==
    IF mdl \in {"VT4", "VT41", "A300AI"} THEN 3 * PAGESIZE
    ELSE atom2_headersize(mdl) - PAGESIZE \div 2

atom2_mode(mdl, d, g) ==
    IF mdl \in {"F10", "F11"} THEN FREEDIVE
    ELSE IF mdl \in {"T3B", "VT3", "DG03"} THEN Bits(Rd(d, 2, g), 6, 2)
    ELSE IF mdl \in {"VEO20", "VEO30"} THEN Bits(Rd(d, 1, g), 5, 2)
    ELSE NORMAL

atom2_interval(mdl, d, g) ==
    IF atom2_mode(mdl, d, g) = FREEDIVE THEN 1
    ELSE
      LET idx == IF mdl \in {"A300CS", "VTX"} THEN 31 ELSE 23
          code == Rd(d, idx, g) % 4
      IN CASE code = 0 -> 2 [] code = 1 -> 15 [] code = 2 -> 30 [] OTHER -> 60

atom2_samplesize(mdl, d, g) ==
    IF atom2_mode(mdl, d, g) = FREEDIVE
    THEN IF mdl \in {"F10", "F11"} THEN 2 ELSE 4
    ELSE IF mdl \in {"OC1A", "OC1B", "OC1C", "OCI", "TX1", "A300CS", "VTX"}
    THEN PAGESIZE
    ELSE PAGESIZE \div 2

atom2_have_temperature(mdl, d, g) == atom2_mode(mdl, d, g) # FREEDIVE

\* The initial tank pressure read from the header sample.
atom2_initial_pressure(mdl, d, g) ==
    LET idx == IF mdl \in {"A300CS", "VTX"} THEN 16 ELSE 2
        header == atom2_header(mdl)
    IN Rd(d, header + idx, g) + 256 * Rd(d, header + idx + 1, g)

atom2_have_pressure(mdl, d, g) ==
    /\ atom2_mode(mdl, d, g) # FREEDIVE
    /\ mdl \notin {"VEO30", "OCS", "ELEMENT2", "VEO20", "A300", "ZEN",
                     "GEO", "GEO20", "MANTA"}
    /\ atom2_initial_pressure(mdl, d, g) # 10000

\* The temperature of a data sample; t is the previous temperature.
atom2_temperature(mdl, d, g, offset, t) ==
    LET b(i) == Rd(d, offset + i, g)
    IN IF mdl \in {"GEO", "ATOM1", "ELEMENT2"} THEN b(6)
       ELSE IF mdl \in {"GEO20", "VEO20", "VEO30", "OC1A", "OC1B", "OC1C",
                        "OCI", "A300"} THEN b(3)
       ELSE IF mdl \in {"OCS", "TX1"} THEN b(1)
       ELSE IF mdl \in {"VT4", "VT41", "ATOM3", "ATOM31", "A300AI"}
       THEN Bits(b(7), 4, 4) + Bits(b(7), 2, 2) * 16 + Bits(b(5), 2, 2) * 64
       ELSE IF mdl \in {"A300CS", "VTX"} THEN b(11)
       ELSE
         LET sign == IF mdl \in {"DG03", "PROPLUS3"} THEN 1 - Bits(b(5), 2, 1)
                     ELSE IF mdl \in {"VOYAGER2G", "AMPHOS", "AMPHOSAIR"}
                     THEN Bits(b(5), 2, 1)
                     ELSE IF mdl \in {"ATOM2", "PROPLUS21", "EPICA", "EPICB",
                                      "ATMOSAI2", "WISDOM2", "WISDOM3"}
                     THEN Bits(b(0), 7, 1)
                     ELSE 1 - Bits(b(0), 7, 1)
         IN IF sign # 0 THEN U32(t - Bits(b(7), 2, 2))
                        ELSE U32(t + Bits(b(7), 2, 2))

\* The tank pressure of a data sample; pr is the previous pressure.
atom2_pressure(mdl, d, g, offset, pr) ==
    LET b(i) == Rd(d, offset + i, g)
    IN IF mdl \in {"OC1A", "OC1B", "OC1C", "OCI"}
       THEN (b(10) + 256 * b(11)) % 4096
       ELSE IF mdl \in {"VT4", "VT41", "ATOM3", "ATOM31", "ZENAIR", "A300AI",
                        "DG03", "PROPLUS3", "AMPHOSAIR"}
       THEN ((b(0) % 4) * 256 + b(1)) * 5
       ELSE IF mdl \in {"TX1", "A300CS", "VTX"}
       THEN array_uint16_le(d, offset + 4, g)
       ELSE U32(pr - b(1))

atom2_depth(mdl, d, g, offset) ==
    LET b(i) == Rd(d, offset + i, g)
    IN IF atom2_mode(mdl, d, g) = FREEDIVE THEN array_uint16_le(d, offset, g)
       ELSE IF mdl \in {"GEO20", "VEO20", "VEO30", "OC1A", "OC1B", "OC1C",
                        "OCI", "A300"}
       THEN (b(4) + 256 * b(5)) % 4096
       ELSE IF mdl = "ATOM1" THEN b(3) * 16
       ELSE (b(2) + 256 * b(3)) % 4096

\* The tank and pressure selected by a tank switch (0xAA) sample.
atom2_tank_switch(mdl, d, g, offset) ==
    LET b(i) == Rd(d, offset + i, g)
    IN IF mdl \in {"DATAMASK", "COMPUMASK"}
       THEN [tank |-> 0, pressure |-> (256 * b(7) + b(6)) % 4096]
       ELSE IF mdl \in {"A300CS", "VTX"}
       THEN [tank |-> U32((b(1) % 4) - 1),
             pressure |-> (256 * b(7) + b(6)) % 4096]
       ELSE [tank |-> U32((b(1) % 4) - 1),
             pressure |-> IF mdl \in {"ATOM2", "EPICA", "EPICB"}
                          THEN ((256 * b(3) + b(4)) % 4096) * 2
                          ELSE ((256 * b(4) + b(5)) % 4096) * 2]

\* A variant that inserts no surface sample.
atom2_surface_none(nsamples, interval, s, i) == s

\* The surface samples inserted for a surface interval (0xBB) sample.
RECURSIVE atom2_surface(_, _, _, _)
atom2_surface(nsamples, interval, s, i) ==
    IF i >= nsamples THEN s
    ELSE atom2_surface(nsamples, interval,
           [s EXCEPT !.time = IF s.complete THEN U32(@ + interval) ELSE @,
                     !.complete = TRUE,
                     !.stream = @ \o (IF s.complete
                                      THEN <<<<"TIME", U32(s.time + interval)>>>>
                                      ELSE <<>>) \o <<<<"DEPTH", 0>>>>],
           i + 1)

\* The sample loop; s = [time, complete, temperature, tank, pressure, stream].
RECURSIVE atom2_samples_loop(_, _, _, _, _)
atom2_samples_loop(mdl, d, g, offset, s) ==
    LET samplesize == atom2_samplesize(mdl, d, g)
        interval == atom2_interval(mdl, d, g)
        footersize == atom2_footersize(mdl)
    IN IF ~(offset + samplesize <= Len(d) - footersize)
       THEN [status |-> "SUCCESS", stream |-> s.stream]
       ELSE IF array_isequal(d, offset, samplesize, 0, g)
                 \/ array_isequal(d, offset, samplesize, 255, g)
       THEN atom2_samples_loop(mdl, d, g, offset + samplesize, s)
       ELSE
         LET t == IF s.complete THEN U32(s.time + interval) ELSE s.time
             tm == IF s.complete THEN <<<<"TIME", t>>>> ELSE <<>>
             sampletype == IF atom2_mode(mdl, d, g) = FREEDIVE THEN 0
                           ELSE Rd(d, offset, g)
             length == IF sampletype = 187 THEN PAGESIZE ELSE samplesize
             s1 == [s EXCEPT !.time = t, !.complete = FALSE,
                             !.stream = @ \o tm]
             s2 == [s1 EXCEPT !.stream = @ \o <<<<"VENDOR", offset, length>>>>]
         IN IF sampletype = 187 /\ offset + length > Len(d) - PAGESIZE
            THEN [status |-> "DATAFORMAT", stream |-> s1.stream]
            ELSE IF sampletype = 170
            THEN LET ts == atom2_tank_switch(mdl, d, g, offset)
                 IN atom2_samples_loop(mdl, d, g, offset + length,
                       [s2 EXCEPT !.tank = ts.tank, !.pressure = ts.pressure])
            ELSE IF sampletype = 187
            THEN LET surftime == 60 * bcd2dec(Rd(d, offset + 1, g))
                                   + bcd2dec(Rd(d, offset + 2, g))
                 IN atom2_samples_loop(mdl, d, g, offset + length,
                       atom2_surface(surftime \div interval, interval, s2, 0))
            ELSE
              LET ht == atom2_have_temperature(mdl, d, g)
                  hp == atom2_have_pressure(mdl, d, g)
                  temp == IF ht
                          THEN atom2_temperature(mdl, d, g, offset, s.temperature)
                          ELSE s.temperature
                  pres == IF hp
                          THEN atom2_pressure(mdl, d, g, offset, s.pressure)
                          ELSE s.pressure
                  out == (IF ht THEN <<<<"TEMPERATURE", temp>>>> ELSE <<>>)
                         \o (IF hp THEN <<<<"PRESSURE", s.tank, pres>>>>
                                   ELSE <<>>)
                         \o <<<<"DEPTH", atom2_depth(mdl, d, g, offset)>>>>
                         \o (IF mdl \in {"A300CS", "VTX"}
                             THEN <<<<"DECO",
                                     IF Bits(Rd(d, offset + 15, g), 4, 3) # 0
                                     THEN "DECOSTOP" ELSE "NDL",
                                     Bits(Rd(d, offset + 15, g), 4, 3) * 10,
                                     array_uint16_le(d, offset + 6, g) % 1024>>>>
                             ELSE <<>>)
              IN atom2_samples_loop(mdl, d, g, offset + length,
                    [s2 EXCEPT !.temperature = temp, !.pressure = pres,
                               !.complete = TRUE, !.stream = @ \o out])

\* The walk with every sample delivered, as a callback would see it.
atom2_walk(mdl, d, g) ==
    IF Len(d) < atom2_headersize(mdl) + atom2_footersize(mdl)
    THEN [status |-> "DATAFORMAT", stream |-> <<>>]
    ELSE atom2_samples_loop(mdl, d, g, atom2_headersize(mdl),
           [time |-> 0, complete |-> TRUE,
            temperature |-> IF atom2_have_temperature(mdl, d, g)
                            THEN Rd(d, atom2_header(mdl) + 7, g) ELSE 0,
            tank |-> 0,
            pressure |-> IF atom2_mode(mdl, d, g) # FREEDIVE
                            /\ mdl \notin {"VEO30", "OCS", "ELEMENT2", "VEO20",
                                  "A300", "ZEN", "GEO", "GEO20", "MANTA"}
                         THEN atom2_initial_pressure(mdl, d, g) ELSE 0,
            stream |-> <<>>])

oceanic_atom2_parser_samples_foreach(m, c, d, cb, g) ==
    LET r == atom2_walk(m.model, d, g)
    IN WalkResult(r.status, IF cb THEN r.stream ELSE <<>>, c)

atom2_ngasmixes(mdl, d, g) ==
    IF atom2_mode(mdl, d, g) = FREEDIVE THEN 0
    ELSE IF mdl \in {"DATAMASK", "COMPUMASK"} THEN 1
    ELSE IF mdl \in {"VT4", "VT41", "OCI", "A300AI"} THEN 4
    ELSE IF mdl = "TX1" THEN 6
    ELSE IF mdl \in {"A300CS", "VTX"}
    THEN IF Bits(Rd(d, 57, g), 2, 1) # 0 THEN 1
         ELSE IF Bits(Rd(d, 57, g), 3, 1) # 0 THEN 2
         ELSE IF Bits(Rd(d, 57, g), 4, 1) # 0 THEN 3
         ELSE 4
    ELSE 3

atom2_gasmix(mdl, d, g, flags) ==
    LET header == atom2_header(mdl)
        oxygen == IF mdl \in {"DATAMASK", "COMPUMASK"} THEN Rd(d, header + 3, g)
                  ELSE IF mdl = "OCI" THEN Rd(d, 40 + flags, g)
                  ELSE IF mdl \in {"A300CS", "VTX"} THEN Rd(d, 42 + flags, g)
                  ELSE IF mdl = "TX1" THEN Rd(d, 62 + flags, g)
                  ELSE Rd(d, header + 4 + flags, g)
        helium == IF mdl = "TX1" THEN Rd(d, 72 + flags, g) ELSE 0
    IN [helium |-> helium, oxygen |-> IF oxygen # 0 THEN oxygen ELSE 21]

oceanic_atom2_parser_get_field(m, c, d, type, flags, hasvalue, g) ==
    IF Len(d) < atom2_headersize(m.model) + atom2_footersize(m.model)
    THEN FieldResult("DATAFORMAT", None, c)
    ELSE
      LET mdl == m.model
          footer == Len(d) - atom2_footersize(mdl)
          mode == atom2_mode(mdl, d, g)
          r == atom2_walk(mdl, d, g)
          st == sample_statistics_cb(r.stream, SAMPLE_STATISTICS_INITIALIZER)
          p == IF c.cached = 0
               THEN [cached |-> 1, divetime |-> st.divetime,
                     maxdepth |-> st.maxdepth]
               ELSE c
      IN IF c.cached = 0 /\ r.status # "SUCCESS"
         THEN FieldResult(r.status, None, c)
         ELSE IF ~hasvalue THEN FieldResult("SUCCESS", None, p)
         ELSE CASE type = "DIVETIME" ->
                     FieldResult("SUCCESS",
                        IF mdl \in {"F10", "F11"}
                        THEN bcd2dec(Rd(d, 2, g)) + bcd2dec(Rd(d, 3, g)) * 60
                               + bcd2dec(Rd(d, 1, g)) * 3600
                        ELSE p.divetime, p)
                [] type = "MAXDEPTH" ->
                     FieldResult("SUCCESS",
                        IF mdl \in {"F10", "F11"}
                        THEN array_uint16_le(d, 4, g)
                        ELSE array_uint16_le(d, footer + 4, g), p)
                [] type = "GASMIX_COUNT" ->
                     FieldResult("SUCCESS", atom2_ngasmixes(mdl, d, g), p)
                [] type = "GASMIX" ->
                     FieldResult("SUCCESS", atom2_gasmix(mdl, d, g, flags), p)
                [] type = "SALINITY" ->
                     IF mdl \in {"A300CS", "VTX"}
                     THEN FieldResult("SUCCESS",
                             [type |-> IF Rd(d, 24, g) >= 128 THEN "FRESH"
                                                              ELSE "SALT",
                              density |-> 0], p)
                     ELSE FieldResult("UNSUPPORTED", None, p)
                [] type = "DIVEMODE" ->
                     (CASE mode = NORMAL -> FieldResult("SUCCESS", "OC", p)
                        [] mode = GAUGE -> FieldResult("SUCCESS", "GAUGE", p)
                        [] mode = FREEDIVE ->
                             FieldResult("SUCCESS", "FREEDIVE", p)
                        [] OTHER -> FieldResult("DATAFORMAT", None, p))
                [] type = "STRING" ->
                     IF flags = 0
                     THEN FieldResult("SUCCESS",
                             [desc |-> "Serial", value |-> m.serial], p)
                     ELSE FieldResult("UNSUPPORTED", None, p)
                [] OTHER -> FieldResult("UNSUPPORTED", None, p)

\* A header of the default layout (72 bytes, header sample at 64): the
\* sample interval code at 0x17, the dive mode bits in byte 2, the O2
\* percentage of the first mix and the initial temperature.
Atom2Header(code, b2, o2) ==
    Patch(Patch(Patch(Patch(Zeros(72), 0, <<48, 9, b2, 18, 100>>), 23, <<code>>),
                68, <<o2>>), 71, <<70>>)

\* A TX1 header (104 bytes): O2 percentages at 0x3E, He at 0x48.
Tx1Header(o2, he) ==
    Patch(Patch(Patch(Zeros(104), 0, <<48, 9, 0, 18, 100>>), 62, <<o2>>),
          72, <<he>>)

Atom2Footer == Patch(Zeros(PAGESIZE), 4, LE16(800))

\* An 8-byte data sample, a tank switch sample, a surface interval sample
\* and an empty sample.
Atom2SampleSet ==
    {<<1, 2, 64, 1, 0, 0, 0, 4>>, <<170, 1, 0, 9, 96, 0, 0, 0>>,
     <<187, 0, 5, 0, 0, 0, 0, 0>>, Zeros(8)}

\* A 16-byte data sample and a surface interval sample.
Tx1SampleSet ==
    {<<1, 75, 0, 0, 44, 1>> \o Zeros(10), <<187, 0, 3>> \o Zeros(13)}

\* Dives at an interval of 30 s around a surface interval of 1 min 30 s:
\* after a data sample; after a data sample and a tank switch; as the
\* first sample; after a surface interval of 5 s.
Atom2SurfaceDives ==
    LET sample == <<1, 2, 64, 1, 0, 0, 0, 4>>
        switch == <<170, 1, 0, 9, 96, 0, 0, 0>>
        surface(min, sec) == <<187, min, sec>> \o Zeros(PAGESIZE - 3)
    IN {sample \o surface(1, 48),
        sample \o switch \o surface(1, 48) \o sample,
        surface(1, 48) \o sample,
        sample \o surface(0, 5) \o surface(1, 48)}

Atom2Blobs ==
    {Atom2Header(h[1], h[2], h[3]) \o Concat(ss) \o Atom2Footer :
        h \in {<<0, 64, 32>>, <<3, 192, 200>>},
        ss \in SeqsUpTo(Atom2SampleSet, MaxSamples)}
      \cup {Tx1Header(h[1], h[2]) \o Concat(ss) \o Atom2Footer :
              h \in {<<21, 35>>, <<60, 60>>},
              ss \in SeqsUpTo(Tx1SampleSet, MaxSamples)}
      \cup {SubSeq(Atom2Header(0, 64, 32), 1, n) : n \in {0, 7, 9, 31}}
      \cup {Atom2Header(0, 64, 32) \o Zeros(15)}
      \cup {Atom2Header(2, 64, 32) \o body \o Atom2Footer :
              body \in Atom2SurfaceDives}

Atom2Models == {"ATOM2", "TX1", "F10", "A300CS", "VT3"}

(***************************************************************************)
(* Uwatec Smart / Galileo parser (uwatec_smart_parser.c).  The model       *)
(* parameter is [model, devtime, systime].  Temperatures are in units of   *)
(* 0.4 degrees, pressures of 1/4 bar, depths of 1/50 m.                    *)
(***************************************************************************)
NBITS == 8

SMART_UNSUPPORTED == -1

SMART_NGASMIXES == 3

HeaderInfo(md, dt, gm, ng, tmin, tmax, tsurf, tp, sal, tz) ==
    [maxdepth |-> md, divetime |-> dt, gasmix |-> gm, ngases |-> ng,
     temp_minimum |-> tmin, temp_maximum |-> tmax, temp_surface |-> tsurf,
     tankpressure |-> tp, salinity |-> sal, timezone |-> tz]

uwatec_smart_pro_header ==
    HeaderInfo(18, 20, 24, 1, 22, SMART_UNSUPPORTED, SMART_UNSUPPORTED,
               SMART_UNSUPPORTED, SMART_UNSUPPORTED, SMART_UNSUPPORTED)

uwatec_smart_galileo_header == HeaderInfo(22, 26, 44, 3, 30, 28, 32, 50, 94, 16)

uwatec_smart_aladin_tec_header ==
    HeaderInfo(22, 24, 30, 1, 26, 28, 32, SMART_UNSUPPORTED,
               SMART_UNSUPPORTED, 16)

uwatec_smart_aladin_tec2g_header ==
    HeaderInfo(22, 26, 34, 2, 30, 28, 32, SMART_UNSUPPORTED,
               SMART_UNSUPPORTED, SMART_UNSUPPORTED)

uwatec_smart_com_header ==
    HeaderInfo(18, 20, 24, 1, 22, SMART_UNSUPPORTED, SMART_UNSUPPORTED, 30,
               SMART_UNSUPPORTED, SMART_UNSUPPORTED)

uwatec_smart_tec_header ==
    HeaderInfo(18, 20, 28, 3, 22, SMART_UNSUPPORTED, SMART_UNSUPPORTED, 34,
               SMART_UNSUPPORTED, SMART_UNSUPPORTED)

SI(type, absolute, index, ntypebits, ignoretype, extrabytes) ==
    [type |-> type, absolute |-> absolute, index |-> index,
     ntypebits |-> ntypebits, ignoretype |-> ignoretype,
     extrabytes |-> extrabytes]

uwatec_smart_pro_samples ==
    <<SI("DEPTH", 0, 0, 1, 0, 0), SI("TEMPERATURE", 0, 0, 2, 0, 0),
      SI("TIME", 1, 0, 3, 0, 0), SI("ALARMS", 1, 0, 4, 0, 0),
      SI("DEPTH", 0, 0, 5, 0, 1), SI("TEMPERATURE", 0, 0, 6, 0, 1),
      SI("DEPTH", 1, 0, 7, 1, 2), SI("TEMPERATURE", 1, 0, 8, 0, 2)>>

uwatec_smart_galileo_samples ==
    <<SI("DEPTH", 0, 0, 1, 0, 0), SI("RBT", 0, 0, 3, 0, 0),
      SI("PRESSURE", 0, 0, 4, 0, 0), SI("TEMPERATURE", 0, 0, 4, 0, 0),
      SI("TIME", 1, 0, 4, 0, 0), SI("HEARTRATE", 0, 0, 4, 0, 0),
      SI("ALARMS", 1, 0, 4, 0, 0), SI("ALARMS", 1, 1, 8, 0, 1),
      SI("DEPTH", 1, 0, 8, 0, 2), SI("RBT", 1, 0, 8, 0, 1),
      SI("TEMPERATURE", 1, 0, 8, 0, 2), SI("PRESSURE", 1, 0, 8, 0, 2),
      SI("PRESSURE", 1, 1, 8, 0, 2), SI("PRESSURE", 1, 2, 8, 0, 2),
      SI("HEARTRATE", 1, 0, 8, 0, 1), SI("BEARING", 1, 0, 8, 0, 2),
      SI("ALARMS", 1, 2, 8, 0, 1), SI("UNKNOWN1", 1, 0, 8, 0, 0),
      SI("UNKNOWN2", 1, 0, 8, 0, 1)>>

uwatec_smart_aladin_samples ==
    uwatec_smart_pro_samples \o <<SI("ALARMS", 1, 1, 9, 0, 0)>>

uwatec_smart_com_samples ==
    <<SI("PRESSURE_DEPTH", 0, 0, 1, 0, 1), SI("RBT", 0, 0, 2, 0, 0),
      SI("TEMPERATURE", 0, 0, 3, 0, 0), SI("PRESSURE", 0, 0, 4, 0, 1),
      SI("DEPTH", 0, 0, 5, 0, 1), SI("TEMPERATURE", 0, 0, 6, 0, 1),
      SI("ALARMS", 1, 0, 7, 1, 1), SI("TIME", 1, 0, 8, 0, 1),
      SI("DEPTH", 1, 0, 9, 1, 2), SI("PRESSURE", 1, 0, 10, 1, 2),
      SI("TEMPERATURE", 1, 0, 11, 1, 2), SI("RBT", 1, 0, 12, 1, 1)>>

uwatec_smart_tec_samples ==
    <<SI("PRESSURE_DEPTH", 0, 0, 1, 0, 1), SI("RBT", 0, 0, 2, 0, 0),
      SI("TEMPERATURE", 0, 0, 3, 0, 0), SI("PRESSURE", 0, 0, 4, 0, 1),
      SI("DEPTH", 0, 0, 5, 0, 1), SI("TEMPERATURE", 0, 0, 6, 0, 1),
      SI("ALARMS", 1, 0, 7, 1, 1), SI("TIME", 1, 0, 8, 0, 1),
      SI("DEPTH", 1, 0, 9, 1, 2), SI("TEMPERATURE", 1, 0, 10, 1, 2),
      SI("PRESSURE", 1, 0, 11, 1, 2), SI("PRESSURE", 1, 1, 12, 1, 2),
      SI("PRESSURE", 1, 2, 13, 1, 2), SI("RBT", 1, 0, 14, 1, 1)>>

SmartGalileoModels ==
    {"GALILEO", "GALILEOTRIMIX", "ALADIN2G", "MERIDIAN", "CHROMIS"}

\* The layout selected by uwatec_smart_parser_create.
smart_layout(mdl) ==
    CASE mdl = "SMARTPRO" ->
           [headersize |-> 92, header |-> uwatec_smart_pro_header,
            samples |-> uwatec_smart_pro_samples]
      [] mdl \in SmartGalileoModels ->
           [headersize |-> 152, header |-> uwatec_smart_galileo_header,
            samples |-> uwatec_smart_galileo_samples]
      [] mdl = "ALADINTEC" ->
           [headersize |-> 108, header |-> uwatec_smart_aladin_tec_header,
            samples |-> uwatec_smart_aladin_samples]
      [] mdl = "ALADINTEC2G" ->
           [headersize |-> 116, header |-> uwatec_smart_aladin_tec2g_header,
            samples |-> uwatec_smart_aladin_samples]
      [] mdl = "SMARTCOM" ->
           [headersize |-> 100, header |-> uwatec_smart_com_header,
            samples |-> uwatec_smart_com_samples]
      [] mdl \in {"SMARTTEC", "SMARTZ"} ->
           [headersize |-> 132, header |-> uwatec_smart_tec_header,
            samples |-> uwatec_smart_tec_samples]

SmartNoTank == [beginpressure |-> 0, endpressure |-> 0]

uwatec_smart_parser_create ==
    [cached |-> 0, trimix |-> 0, ngasmixes |-> 0,
     oxygen |-> Zeros(SMART_NGASMIXES), ntanks |-> 0,
     tank |-> [k \in 1..SMART_NGASMIXES |-> SmartNoTank],
     watertype |-> "FRESH"]

uwatec_smart_parser_set_data(c, d) ==
    [cached |-> 0, trimix |-> 0, ngasmixes |-> 0,
     oxygen |-> Zeros(SMART_NGASMIXES), ntanks |-> 0,
     tank |-> [k \in 1..SMART_NGASMIXES |-> SmartNoTank],
     watertype |-> "FRESH"]

\* The gas mix loop of the cache; s = [n, oxygen, top], where top is the
\* highest offset read so far.
RECURSIVE smart_gas_loop(_, _, _, _, _)
smart_gas_loop(h, d, g, i, s) ==
    IF i >= h.ngases THEN s
    ELSE
      LET o2 == Rd(d, h.gasmix + i * 2, g)
          t == IF s.top < h.gasmix + i * 2 THEN h.gasmix + i * 2 ELSE s.top
      IN IF o2 = 0 THEN [s EXCEPT !.top = t]
         ELSE smart_gas_loop(h, d, g, i + 1,
                [n |-> s.n + 1, oxygen |-> [s.oxygen EXCEPT ![s.n + 1] = o2],
                 top |-> t])

\* The tank loop of the cache; s = [n, tank, top].
RECURSIVE smart_tank_loop(_, _, _, _, _, _)
smart_tank_loop(mdl, h, d, g, i, s) ==
    IF i >= h.ngases THEN s
    ELSE
      LET galileo == mdl \in SmartGalileoModels
          idx == IF galileo THEN h.tankpressure + 2 * i
                            ELSE h.tankpressure + 4 * i
          beginpressure == IF galileo
                           THEN array_uint16_le(d, idx + 2 * h.ngases, g)
                           ELSE array_uint16_le(d, idx, g)
          endpressure == IF galileo THEN array_uint16_le(d, idx, g)
                                    ELSE array_uint16_le(d, idx + 2, g)
          last == IF galileo THEN idx + 2 * h.ngases + 1 ELSE idx + 3
          t == IF s.top < last THEN last ELSE s.top
      IN IF beginpressure = 0 /\ endpressure = 0 THEN [s EXCEPT !.top = t]
         ELSE smart_tank_loop(mdl, h, d, g, i + 1,
                [n |-> s.n + 1,
                 tank |-> [s.tank EXCEPT ![s.n + 1] =
                             [beginpressure |-> beginpressure,
                              endpressure |-> endpressure]],
                 top |-> t])

\* top is the highest offset of the blob that the function has read (-1 if
\* none); a value at or past the size of the blob is a read out of bounds.
uwatec_smart_parser_cache(m, c, d, g) ==
    IF c.cached # 0 THEN [status |-> "SUCCESS", cache |-> c, top |-> -1]
    ELSE IF m.model \in {"GALILEO", "GALILEOTRIMIX"} /\ Len(d) < 44
    THEN [status |-> "DATAFORMAT", cache |-> c, top |-> -1]
    ELSE
      LET notank == [k \in 1..SMART_NGASMIXES |-> SmartNoTank]
          store(h, trimix, gs, ts) ==
            [status |-> "SUCCESS",
             cache |-> [cached |-> 1, trimix |-> trimix, ngasmixes |-> gs.n,
                        oxygen |-> [k \in 1..SMART_NGASMIXES |->
                                      IF k <= gs.n THEN gs.oxygen[k]
                                                   ELSE c.oxygen[k]],
                        ntanks |-> ts.n,
                        tank |-> [k \in 1..SMART_NGASMIXES |->
                                    IF k <= ts.n THEN ts.tank[k] ELSE c.tank[k]],
                        watertype |->
                          IF h.salinity # SMART_UNSUPPORTED
                               /\ Bits(Rd(d, h.salinity, g), 4, 1) # 0
                          THEN "SALT" ELSE "FRESH"],
             top |-> IF h.salinity # SMART_UNSUPPORTED /\ ts.top < h.salinity
                     THEN h.salinity ELSE ts.top]
          tanks(h, trimix, gs) ==
            store(h, trimix, gs,
                  IF trimix = 0 /\ h.tankpressure # SMART_UNSUPPORTED
                  THEN smart_tank_loop(m.model, h, d, g, 0,
                          [n |-> 0, tank |-> notank, top |-> gs.top])
                  ELSE [n |-> 0, tank |-> notank, top |-> gs.top])
          gases(h, trimix, t0) ==
            tanks(h, trimix,
                  IF trimix = 0
                  THEN smart_gas_loop(h, d, g, 0,
                          [n |-> 0, oxygen |-> Zeros(SMART_NGASMIXES),
                           top |-> t0])
                  ELSE [n |-> 0, oxygen |-> Zeros(SMART_NGASMIXES), top |-> t0])
      IN gases(smart_layout(m.model).header,
               IF m.model \in {"GALILEO", "GALILEOTRIMIX"}
                    /\ Rd(d, 43, g) >= 128 THEN 1 ELSE 0,
               IF m.model \in {"GALILEO", "GALILEOTRIMIX"} THEN 43 ELSE -1)

uwatec_smart_parser_get_datetime(m, d, g) ==
    LET decode(layout) ==
          IF Len(d) < layout.headersize
          THEN [status |-> "DATAFORMAT", value |-> None]
          ELSE [status |-> "SUCCESS",
                value |->
                  IF layout.header.timezone # SMART_UNSUPPORTED
                  THEN <<"gmtime",
                         m.systime
                           - UHalf(U32(m.devtime - array_uint32_le(d, 8, g)))
                           + int8(Rd(d, layout.header.timezone, g)) * 900>>
                  ELSE <<"localtime",
                         m.systime
                           - UHalf(U32(m.devtime
                                         - array_uint32_le(d, 8, g)))>>]
    IN decode(smart_layout(m.model))

\* oob records a read at or past the size of the blob.
uwatec_smart_parser_get_field(m, c, d, type, flags, hasvalue, g) ==
    LET field(rc, table) ==
          LET p == rc.cache
              salinity == IF p.watertype = "SALT" THEN 1025 ELSE 1000
              R(status, value, top) ==
                [status |-> status, value |-> value, cache |-> p,
                 oob |-> rc.top >= Len(d) \/ top >= Len(d)]
          IN IF rc.status # "SUCCESS"
             THEN [status |-> rc.status, value |-> None, cache |-> p,
                   oob |-> FALSE]
             ELSE IF ~hasvalue THEN R("SUCCESS", None, -1)
             ELSE CASE type = "DIVETIME" ->
                         R("SUCCESS", array_uint16_le(d, table.divetime, g) * 60,
                           table.divetime + 1)
                    [] type = "MAXDEPTH" ->
                         R("SUCCESS",
                           array_uint16_le(d, table.maxdepth, g) * salinity,
                           table.maxdepth + 1)
                    [] type = "GASMIX_COUNT" ->
                         IF p.trimix # 0 THEN R("UNSUPPORTED", None, -1)
                         ELSE R("SUCCESS", p.ngasmixes, -1)
                    [] type = "GASMIX" ->
                         IF p.trimix # 0 THEN R("UNSUPPORTED", None, -1)
                         ELSE R("SUCCESS",
                                [helium |-> 0,
                                 oxygen |-> ArrRd(p.oxygen, flags, g)], -1)
                    [] type = "TANK_COUNT" ->
                         IF p.trimix # 0
                              \/ table.tankpressure = SMART_UNSUPPORTED
                         THEN R("UNSUPPORTED", None, -1)
                         ELSE R("SUCCESS", p.ntanks, -1)
                    [] type = "TANK" ->
                         IF p.trimix # 0
                              \/ table.tankpressure = SMART_UNSUPPORTED
                         THEN R("UNSUPPORTED", None, -1)
                         ELSE R("SUCCESS",
                                [gasmix |-> IF flags < p.ngasmixes THEN flags
                                            ELSE -1,
                                 tank |-> ArrRd(p.tank, flags, g)], -1)
                    [] type = "TEMPERATURE_MINIMUM" ->
                         R("SUCCESS",
                           int16(array_uint16_le(d, table.temp_minimum, g)),
                           table.temp_minimum + 1)
                    [] type = "TEMPERATURE_MAXIMUM" ->
                         IF table.temp_maximum = SMART_UNSUPPORTED
                         THEN R("UNSUPPORTED", None, -1)
                         ELSE R("SUCCESS",
                                int16(array_uint16_le(d, table.temp_maximum, g)),
                                table.temp_maximum + 1)
                    [] type = "TEMPERATURE_SURFACE" ->
                         IF table.temp_surface = SMART_UNSUPPORTED
                         THEN R("UNSUPPORTED", None, -1)
                         ELSE R("SUCCESS",
                                int16(array_uint16_le(d, table.temp_surface, g)),
                                table.temp_surface + 1)
                    [] type = "DIVEMODE" ->
                         IF p.trimix # 0 THEN R("UNSUPPORTED", None, -1)
                         ELSE R("SUCCESS",
                                IF p.ngasmixes # 0 THEN "OC" ELSE "GAUGE", -1)
                    [] type = "SALINITY" ->
                         IF table.salinity = SMART_UNSUPPORTED
                         THEN R("UNSUPPORTED", None, -1)
                         ELSE R("SUCCESS",
                                [type |-> p.watertype, density |-> salinity], -1)
                    [] OTHER -> R("UNSUPPORTED", None, -1)
    IN field(uwatec_smart_parser_cache(m, c, d, g), smart_layout(m.model).header)

\* The number of leading one bits of the bytes from offset on, or
\* (unsigned int) -1 when every remaining bit is set.
RECURSIVE uwatec_smart_identify(_, _, _, _, _)
uwatec_smart_identify(d, g, offset, i, count) ==
    IF i >= Len(d) - offset THEN SMART_UNSUPPORTED
    ELSE
      LET value == Rd(d, offset + i, g)
          ones == CHOOSE k \in 0..NBITS :
                    /\ \A j \in 0..(k - 1) : Bits(value, NBITS - 1 - j, 1) = 1
                    /\ (k = NBITS \/ Bits(value, NBITS - 1 - k, 1) = 0)
      IN IF ones < NBITS THEN count + ones
         ELSE uwatec_smart_identify(d, g, offset, i + 1, count + NBITS)

uwatec_galileo_identify(value) ==
    IF Bits(value, 7, 1) = 0 THEN 0
    ELSE IF Bits(value, 5, 3) = 4 THEN 1
    ELSE IF Bits(value, 4, 4) # 15 THEN Bits(value, 4, 3)
    ELSE (value % 16) + 7

\* The value x of n bits, sign-extended to 32 bits.
uwatec_smart_fixsignbit(x, n) ==
    IF n <= 0 \/ n > 32 THEN 0
    ELSE IF n = 32 THEN x
    ELSE IF Bits(x, n - 1, 1) = 1 THEN (x % Pow2(n)) - Pow2(n)
    ELSE x % Pow2(n)

\* (signed int) x
int32(x) == x

\* The extra data bytes appended to value.
RECURSIVE smart_extra(_, _, _, _, _)
smart_extra(d, g, offset, n, value) ==
    IF n = 0 THEN value
    ELSE smart_extra(d, g, offset + 1, n - 1,
                     U32(value * 256 + Rd(d, offset, g)))

smart_gas_change_always(p, s) == p.ngasmixes # 0

\* The condition under which a sample reports its gas mix.
smart_gas_change(p, s) == p.ngasmixes # 0 /\ s.gasmix # s.gasmix_previous

\* The loop "while (complete)" that emits the pending samples.
RECURSIVE smart_commit(_, _, _)
smart_commit(p, s, complete) ==
    IF complete = 0 THEN [status |-> "SUCCESS", s |-> s]
    ELSE
      LET change == smart_gas_change(p, s)
          s1 == [s EXCEPT !.stream = @ \o <<<<"TIME", s.time>>>>]
          out == (IF change
                  THEN <<<<"EVENT", "GASCHANGE", ArrRd(p.oxygen, s.gasmix, 0)>>>>
                  ELSE <<>>)
                 \o (IF s.have_temperature
                     THEN <<<<"TEMPERATURE", s.temperature>>>> ELSE <<>>)
                 \o (IF s.have_alarms THEN <<<<"VENDOR", s.alarms>>>> ELSE <<>>)
                 \o (IF s.have_rbt \/ s.have_pressure
                     THEN <<<<"RBT", s.rbt>>>> ELSE <<>>)
                 \o (IF s.have_pressure
                     THEN <<<<"PRESSURE", s.tank, s.pressure>>>> ELSE <<>>)
                 \o (IF s.have_heartrate
                     THEN <<<<"HEARTBEAT", s.heartrate>>>> ELSE <<>>)
                 \o (IF s.have_bearing
                     THEN <<<<"BEARING", s.bearing>>>> ELSE <<>>)
                 \o (IF s.have_depth
                     THEN <<<<"DEPTH", s.depth - s.depth_calibration,
                             p.watertype>>>> ELSE <<>>)
      IN IF change /\ s.gasmix >= p.ngasmixes
         THEN [status |-> "DATAFORMAT", s |-> s1]
         ELSE smart_commit(p,
                [s1 EXCEPT !.stream = @ \o out,
                           !.gasmix_previous = IF change THEN s.gasmix ELSE @,
                           !.alarms = IF s.have_alarms THEN <<0, 0, 0>> ELSE @,
                           !.have_alarms = FALSE, !.have_bearing = FALSE,
                           !.time = U32(@ + 4)],
                complete - 1)

\* The effect of one decoded sample of table entry e on the locals s;
\* the result carries the number of samples to emit.
smart_apply(m, p, e, value, svalue, s) ==
    LET sv == int32(svalue)
    IN CASE e.type = "PRESSURE_DEPTH" ->
              [s |-> [s EXCEPT !.pressure = @ + int8(Bits(svalue, NBITS, 8)),
                               !.depth = @ + int8(svalue % 256)],
               complete |-> 1]
         [] e.type = "RBT" ->
              [s |-> IF e.absolute # 0
                     THEN [s EXCEPT !.rbt = value, !.have_rbt = TRUE]
                     ELSE [s EXCEPT !.rbt = U32(@ + sv)],
               complete |-> 0]
         [] e.type = "TEMPERATURE" ->
              [s |-> IF e.absolute # 0
                     THEN [s EXCEPT !.temperature = sv,
                                    !.have_temperature = TRUE]
                     ELSE [s EXCEPT !.temperature = @ + sv],
               complete |-> 0]
         [] e.type = "PRESSURE" ->
              [s |-> IF e.absolute # 0
                     THEN IF p.trimix # 0
                          THEN [s EXCEPT !.tank = 0, !.pressure = value % 4096,
                                         !.have_pressure = TRUE, !.gasmix = 0]
                          ELSE [s EXCEPT !.tank = e.index, !.pressure = value,
                                         !.have_pressure = TRUE,
                                         !.gasmix = e.index]
                     ELSE [s EXCEPT !.pressure = @ + sv],
               complete |-> 0]
         [] e.type = "DEPTH" ->
              [s |-> IF e.absolute # 0
                     THEN [s EXCEPT !.depth = value,
                                    !.depth_calibration =
                                        IF s.calibrated THEN @ ELSE value,
                                    !.calibrated = TRUE, !.have_depth = TRUE]
                     ELSE [s EXCEPT !.depth = @ + sv],
               complete |-> 1]
         [] e.type = "HEARTRATE" ->
              [s |-> IF e.absolute # 0
                     THEN [s EXCEPT !.heartrate = value, !.have_heartrate = TRUE]
                     ELSE [s EXCEPT !.heartrate = U32(@ + sv)],
               complete |-> 0]
         [] e.type = "BEARING" ->
              [s |-> [s EXCEPT !.bearing = value, !.have_bearing = TRUE],
               complete |-> 0]
         [] e.type = "ALARMS" ->
              [s |-> [s EXCEPT !.alarms[e.index + 1] = value % 256,
                               !.have_alarms = TRUE,
                               !.gasmix = IF e.index = 1
                                             /\ m.model \notin {"MERIDIAN",
                                                                "CHROMIS"}
                                          THEN Bits(value, 4, 2) ELSE @],
               complete |-> 0]
         [] e.type = "TIME" -> [s |-> s, complete |-> value]
         [] OTHER -> [s |-> s, complete |-> 0]

\* The sample loop; top is the highest offset read, and offset the value of
\* the local of that name when the loop was left at its condition.
RECURSIVE smart_samples_loop(_, _, _, _, _, _)
smart_samples_loop(m, p, d, g, offset, s) ==
    IF ~(offset < Len(d))
    THEN [status |-> "SUCCESS", s |-> [s EXCEPT !.offset = offset]]
    ELSE
      LET emit(r, o4) ==
            IF r.status # "SUCCESS" THEN r
            ELSE smart_samples_loop(m, p, d, g, o4, r.s)
          apply(e, value, o3, st, a) ==
            IF e.type = "UNKNOWN1" /\ o3 + 8 > Len(d)
            THEN [status |-> "DATAFORMAT", s |-> st]
            ELSE IF e.type = "UNKNOWN2"
                      /\ (value < 1 \/ o3 + value - 1 > Len(d))
            THEN [status |-> "DATAFORMAT", s |-> st]
            ELSE emit(smart_commit(p, a.s, a.complete),
                      CASE e.type = "UNKNOWN1" -> o3 + 8
                        [] e.type = "UNKNOWN2" -> o3 + value - 1
                        [] OTHER -> o3)
          extra(e, o2, nbits, st, value) ==
            IF o2 + e.extrabytes > Len(d)
            THEN [status |-> "DATAFORMAT", s |-> st]
            ELSE apply(e, value, o2 + e.extrabytes, st,
                       smart_apply(m, p, e, value,
                                   uwatec_smart_fixsignbit(value, nbits),
                                   [st EXCEPT !.top =
                                      IF e.extrabytes > 0
                                           /\ o2 + e.extrabytes - 1 > @
                                      THEN o2 + e.extrabytes - 1 ELSE @]))
          typebits(e, o1, n, keep) ==
            extra(e, IF n > 0 THEN o1 + 1 ELSE o1,
                  (IF keep THEN NBITS - n ELSE 0) + NBITS * e.extrabytes,
                  [s EXCEPT !.top = IF n > 0 /\ o1 > @ THEN o1
                                    ELSE IF offset > @ THEN offset ELSE @],
                  smart_extra(d, g, IF n > 0 THEN o1 + 1 ELSE o1, e.extrabytes,
                              IF keep THEN Rd(d, o1, g) % Pow2(NBITS - n)
                                      ELSE 0))
          entry(e) ==
            typebits(e, offset + e.ntypebits \div NBITS, e.ntypebits % NBITS,
                     e.ntypebits % NBITS > 0 /\ e.ignoretype = 0)
          identify(table, id) ==
            IF ULe(Len(table), id) THEN [status |-> "DATAFORMAT", s |-> s]
            ELSE entry(table[id + 1])
      IN identify(smart_layout(m.model).samples,
                  IF m.model \in SmartGalileoModels
                  THEN uwatec_galileo_identify(Rd(d, offset, g))
                  ELSE uwatec_smart_identify(d, g, offset, 0, 0))

uwatec_smart_parser_samples_foreach(m, c, d, cb, g) ==
    LET walk(rc, r) ==
          IF rc.status # "SUCCESS"
          THEN [status |-> rc.status, stream |-> <<>>, cache |-> rc.cache,
                oob |-> FALSE]
          ELSE [status |-> r.status,
                stream |-> IF cb THEN r.s.stream ELSE <<>>,
                cache |-> rc.cache, oob |-> r.s.top >= Len(d),
                offset |-> r.s.offset]
        samples(rc, headersize) ==
          walk(rc,
               smart_samples_loop(m, rc.cache, d, g,
                 IF rc.cache.trimix # 0 THEN 177 ELSE headersize,
                 [time |-> 0, rbt |-> 99, tank |-> 0, gasmix |-> 0, depth |-> 0,
                  depth_calibration |-> 0, calibrated |-> FALSE,
                  temperature |-> 0, pressure |-> 0, heartrate |-> 0,
                  bearing |-> 0, alarms |-> <<0, 0, 0>>,
                  gasmix_previous |-> -1, have_depth |-> FALSE,
                  have_temperature |-> FALSE, have_pressure |-> FALSE,
                  have_rbt |-> FALSE, have_heartrate |-> FALSE,
                  have_alarms |-> FALSE, have_bearing |-> FALSE,
                  top |-> rc.top, stream |-> <<>>,
                  offset |-> IF rc.cache.trimix # 0 THEN 177
                             ELSE headersize]))
    IN samples(uwatec_smart_parser_cache(m, c, d, g),
               smart_layout(m.model).headersize)

\* A Smart Pro header: maximum depth, dive time (minutes) and O2 percentage.
SmartProHeader(minutes, o2) ==
    Patch(Patch(Patch(Patch(Zeros(92), 8, LE32(5000)), 18, LE16(1234)),
                20, LE16(minutes)), 24, <<o2>>)

\* A Galileo header: the trimix flag, three O2 percentages, the tank
\* pressures, the salinity flag and the time zone.
GalileoHeader(trimix, o2s) ==
    Patch(Patch(Patch(Patch(Patch(Patch(Patch(Zeros(152), 8, LE32(5000)),
        16, <<4>>), 22, LE16(1234)), 26, LE16(1)), 43, <<trimix * 128>>),
        44, <<o2s[1], 0, o2s[2], 0, o2s[3], 0>> \o LE16(6400) \o Zeros(4)
              \o LE16(25600)), 94, <<16>>)

\* Pro bitstream: depth delta, TIME 2, absolute depth, 0xFF 0x10.
SmartProSampleSet == {<<5>>, <<194>>, <<252, 1, 0>>, <<255, 16>>}

\* Galileo bitstream: depth delta, TIME 3, absolute depth, alarms.
GalileoSampleSet == {<<5>>, <<195>>, <<241, 1, 0>>, <<240, 16>>}

SmartProBlobs ==
    {SmartProHeader(1, o2) \o Concat(ss) :
        o2 \in {32, 0}, ss \in SeqsUpTo(SmartProSampleSet, MaxSamples)}
      \cup {SubSeq(SmartProHeader(1, 32), 1, n) : n \in {0, 20, 60}}
      \cup {SmartProHeader(1, 32) \o <<252>>}
      \cup {SmartProHeader(1, 0) \o tail : tail \in {<<255>>, <<5, 252, 1>>}}

GalileoBlobs ==
    {GalileoHeader(h[1], h[2]) \o Zeros(25 * h[1]) \o Concat(ss) :
        h \in {<<0, <<21, 50, 0>>>>, <<1, <<21, 0, 0>>>>},
        ss \in SeqsUpTo(GalileoSampleSet, MaxSamples)}
      \cup {SubSeq(GalileoHeader(0, <<21, 50, 0>>), 1, n) : n \in {0, 20, 60}}
      \cup {GalileoHeader(0, <<21, 50, 0>>) \o <<250, 1, 2>>}
      \cup {GalileoHeader(1, <<21, 0, 0>>) \o Zeros(n) : n \in {0, 8}}
      \cup {GalileoHeader(0, <<21, 50, 0>>) \o tail :
              tail \in {<<5, 240, 32, 5>>, <<240, 32, 195>>,
                        <<5, 240, 16, 5, 240, 0, 194>>}}
      \cup {GalileoHeader(0, <<0, 0, 0>>) \o tail :
              tail \in {<<250>> \o Zeros(8), <<251, 3, 9, 9>>, <<251, 3, 9>>,
                        <<251, 0>>, <<251>>, <<5, 241, 1>>}}

\* An Aladin Tec header with one O2 percentage, and the bitstreams of a
\* depth delta, TIME 2 and the alarm byte that selects gas mix 1.
AladinTecHeader(o2) ==
    Patch(Patch(Patch(Patch(Zeros(108), 8, LE32(5000)), 22, LE16(1234)),
                24, LE16(1)), 30, <<o2>>)

AladinBlobs ==
    {AladinTecHeader(32) \o Concat(ss) :
        ss \in SeqsUpTo({<<5>>, <<194>>, <<255, 16>>}, MaxSamples)}

\* Smart Com blobs: the Smart Pro header fields in a header of 100 bytes,
\* and the bitstreams of a pressure and depth delta and of TIME 2.
SmartComBlobs ==
    {SmartProHeader(1, 32) \o Zeros(8) \o Concat(ss) :
        ss \in SeqsUpTo({<<5, 3>>, <<254, 2>>}, MaxSamples)}

SmartBlobs(mdl) ==
    CASE mdl \in SmartGalileoModels -> GalileoBlobs
      [] mdl = "ALADINTEC" -> SmartProBlobs \cup AladinBlobs
      [] mdl = "SMARTCOM" -> SmartComBlobs
      [] OTHER -> SmartProBlobs

SmartModels == {"SMARTPRO", "GALILEO", "ALADINTEC", "SMARTCOM"}

(***************************************************************************)
(* Suunto EON Steel parser (suunto_eonsteel_parser.c).  Text is kept as    *)
(* the sequence of its character codes.  Depths are kept in centimetres,   *)
(* the surface pressure in Pascal, gas fractions in percent.               *)
(***************************************************************************)
MAXTYPE == 512

MAXGASES == 16

MAXSTRINGS == 16

\* dc_field_type_t, in declaration order (DC_FIELD_DIVETIME = 0).
dc_field_type_t ==
    <<"DIVETIME", "MAXDEPTH", "AVGDEPTH", "GASMIX_COUNT", "GASMIX",
      "SALINITY", "ATMOSPHERIC", "TEMPERATURE_SURFACE",
      "TEMPERATURE_MINIMUM", "TEMPERATURE_MAXIMUM", "TANK_COUNT", "TANK",
      "DIVEMODE", "STRING">>

FieldIndex(type) ==
    (CHOOSE i \in 1..Len(dc_field_type_t) : dc_field_type_t[i] = type) - 1

\* x | (1 << n)
SetBit(x, n) == IF Bits(x, n, 1) = 1 THEN x ELSE x + Pow2(n)

\* (int) x for a 32-bit pattern x
eonsteel_int(x) == x

\* The NUL-terminated string at offset o.
RECURSIVE cstr(_, _, _)
cstr(d, o, g) ==
    IF o < 0 THEN (IF g = 0 THEN <<>> ELSE <<g>>)
    ELSE IF o > Len(d) \/ Rd(d, o, g) = 0 THEN <<>>
    ELSE <<Rd(d, o, g)>> \o cstr(d, o + 1, g)

HasPrefix(s, pre) == Len(s) >= Len(pre) /\ SubSeq(s, 1, Len(pre)) = pre

DropPrefix(s, pre) == SubSeq(s, Len(pre) + 1, Len(s))

\* The lines of a text, split at '\n' as the strchr loop does.
RECURSIVE eonsteel_lines(_)
eonsteel_lines(s) ==
    IF \E k \in 1..Len(s) : s[k] = 10
    THEN LET k == CHOOSE k \in 1..Len(s) :
                      s[k] = 10 /\ \A j \in 1..(k - 1) : s[j] # 10
         IN <<SubSeq(s, 1, k - 1)>> \o eonsteel_lines(SubSeq(s, k + 1, Len(s)))
    ELSE <<s>>

\* The do-while loop of record_type over the lines: the descriptor found,
\* or failure on a malformed line.
RECURSIVE record_type_lines(_, _)
record_type_lines(lines, desc) ==
    IF lines = <<>> THEN [ok |-> TRUE, desc |-> desc]
    ELSE LET l == Head(lines) IN
         IF Len(l) < 5 \/ l[1] # 60 \/ l[5] # 62
         THEN [ok |-> FALSE, desc |-> <<>>]
         ELSE IF l[2] \in {80, 71}
         THEN record_type_lines(Tail(lines), <<SubSeq(l, 6, Len(l))>>)
         ELSE IF l[2] \in {70, 77}
         THEN record_type_lines(Tail(lines), desc)
         ELSE [ok |-> FALSE, desc |-> <<>>]

\* if (type > MAXTYPE)
type_out_of_range(type) == type > MAXTYPE

\* type_desc is the set of <<type, desc>> pairs of the recorded types, desc
\* being <<>> for NULL and <<text>> otherwise; a type without a pair has a
\* NULL desc.  Index MAXTYPE lies one past the end of the table, in the
\* field cache: an access to it is undefined, and either behaves as an
\* access to a slot of the table or (g # 0) ends the call with a fault.
record_type(td, type, d, o, g) ==
    LET r == record_type_lines(eonsteel_lines(cstr(d, o, g)), <<>>) IN
    IF ~r.ok \/ type_out_of_range(type) THEN td
    ELSE {e \in td : e[1] # type} \cup {<<type, r.desc>>}

\* The table indices that record_type frees and assigns.
record_type_index(type, d, o, g) ==
    LET r == record_type_lines(eonsteel_lines(cstr(d, o, g)), <<>>) IN
    IF ~r.ok \/ type_out_of_range(type) THEN {} ELSE {type}

\* The access to index i of the table does not return.
type_desc_fault(i, g) == i >= MAXTYPE /\ g # 0

type_desc_name(td, type) ==
    IF \E e \in td : e[1] = type
    THEN (CHOOSE e \in td : e[1] = type)[2]
    ELSE <<>>

eonsteel_cache_zero ==
    [initialized |-> 0, divetime |-> 0, maxdepth |-> 0, avgdepth |-> 0,
     ngases |-> 0,
     gasmix |-> [i \in 1..MAXGASES |-> [oxygen |-> 0, helium |-> 0]],
     salinity |-> 0, surface_pressure |-> 0, strings |-> <<>>]

suunto_eonsteel_parser_create ==
    [type_desc |-> {}, cache |-> eonsteel_cache_zero]

add_time_field(c, delta) == [c EXCEPT !.divetime = U32(c.divetime + delta)]

set_depth_field(c, dd) ==
    IF dd # 65535
    THEN [c EXCEPT !.maxdepth = IF dd > c.maxdepth THEN dd ELSE c.maxdepth,
                   !.initialized = SetBit(c.initialized, FieldIndex("MAXDEPTH"))]
    ELSE c

add_gas_type(c) ==
    [c EXCEPT !.ngases = IF c.ngases < MAXGASES THEN c.ngases + 1 ELSE c.ngases,
              !.initialized = SetBit(c.initialized, FieldIndex("GASMIX_COUNT"))]

add_gas_o2(c, o2) ==
    [c EXCEPT !.gasmix = IF c.ngases - 1 >= 0
                         THEN [c.gasmix EXCEPT ![c.ngases].oxygen = o2]
                         ELSE c.gasmix,
              !.initialized = SetBit(c.initialized, FieldIndex("GASMIX"))]

add_gas_he(c, he) ==
    [c EXCEPT !.gasmix = IF c.ngases - 1 >= 0
                         THEN [c.gasmix EXCEPT ![c.ngases].helium = he]
                         ELSE c.gasmix,
              !.initialized = SetBit(c.initialized, FieldIndex("GASMIX"))]

add_string(c, desc, value) ==
    [c EXCEPT !.initialized = SetBit(c.initialized, FieldIndex("STRING")),
              !.strings = IF Len(c.strings) < MAXSTRINGS
                          THEN Append(c.strings, [desc |-> desc, value |-> value])
                          ELSE c.strings]

\* get_le32_float, in hundredths and rounded down; negative numbers and
\* NaN compare below every depth.
get_le32_float(x) ==
    LET e == Bits(x, 23, 8)
        m == Bits(x, 0, 23) + (IF e = 0 THEN 0 ELSE 8388608)
    IN IF x < 0 \/ (e = 255 /\ Bits(x, 0, 23) # 0) THEN 0
       ELSE IF e >= 151 THEN 2147483647
       ELSE IF e = 150 THEN m * 100
       ELSE IF e < 100 THEN 0
       ELSE (m * 100) \div Pow2(150 - e)

STR_SML == <<115, 109, 108, 46>>

STR_DEVICELOG == <<68, 101, 118, 105, 99, 101, 76, 111, 103, 46>>

STR_DEVICE == <<68, 101, 118, 105, 99, 101, 46>>

STR_HEADER == <<72, 101, 97, 100, 101, 114, 46>>

STR_SERIALNUMBER == <<83, 101, 114, 105, 97, 108, 78, 117, 109, 98, 101, 114>>

STR_INFO_HW == <<73, 110, 102, 111, 46, 72, 87>>

STR_INFO_SW == <<73, 110, 102, 111, 46, 83, 87>>

STR_BATTERYATSTART == <<73, 110, 102, 111, 46, 66, 97, 116, 116, 101, 114, 121, 65, 116, 83, 116, 97, 114, 116>>

STR_BATTERYATEND == <<73, 110, 102, 111, 46, 66, 97, 116, 116, 101, 114, 121, 65, 116, 69, 110, 100>>

STR_DEPTH_MAX == <<68, 101, 112, 116, 104, 46, 77, 97, 120>>

STR_SURFACEPRESSURE == <<68, 105, 118, 105, 110, 103, 46, 83, 117, 114, 102, 97, 99, 101, 80, 114, 101, 115, 115, 117, 114, 101>>

STR_DATETIME == <<68, 97, 116, 101, 84, 105, 109, 101>>

STR_ALGORITHM == <<68, 105, 118, 105, 110, 103, 46, 65, 108, 103, 111, 114, 105, 116, 104, 109>>

STR_DIVEMODE == <<68, 105, 118, 105, 110, 103, 46, 68, 105, 118, 101, 77, 111, 100, 101>>

STR_CONSERVATISM == <<68, 105, 118, 105, 110, 103, 46, 67, 111, 110, 115, 101, 114, 118, 97, 116, 105, 115, 109>>

traverse_device_fields(c, name, d, o, g) ==
    IF name = STR_SERIALNUMBER THEN add_string(c, "Serial", cstr(d, o, g))
    ELSE IF name = STR_INFO_HW THEN add_string(c, "HW Version", cstr(d, o, g))
    ELSE IF name = STR_INFO_SW THEN add_string(c, "FW Version", cstr(d, o, g))
    ELSE IF name = STR_BATTERYATSTART
    THEN add_string(c, "Battery at start", cstr(d, o, g))
    ELSE IF name = STR_BATTERYATEND
    THEN add_string(c, "Battery at end", cstr(d, o, g))
    ELSE c

traverse_header_fields(c, name, d, o, g) ==
    IF name = STR_DEPTH_MAX
    THEN LET dm == get_le32_float(array_uint32_le(d, o, g)) IN
         [c EXCEPT !.maxdepth = IF dm > c.maxdepth THEN dm ELSE c.maxdepth]
    ELSE IF name = STR_SURFACEPRESSURE
    THEN [c EXCEPT !.surface_pressure = array_uint32_le(d, o, g),
                   !.initialized = SetBit(c.initialized, FieldIndex("ATMOSPHERIC"))]
    ELSE IF name = STR_DATETIME THEN add_string(c, "Dive ID", cstr(d, o, g))
    ELSE IF name = STR_ALGORITHM
    THEN add_string(c, "Deco algorithm", cstr(d, o, g))
    ELSE IF name = STR_DIVEMODE THEN add_string(c, "Dive Mode", cstr(d, o, g))
    ELSE IF name = STR_CONSERVATISM
    THEN add_string(c, "Personal Adjustment", <<80, int8(Rd(d, o, g))>>)
    ELSE c

traverse_dynamic_fields(c, name, d, o, g) ==
    IF HasPrefix(name, STR_SML \o STR_DEVICELOG \o STR_DEVICE)
    THEN traverse_device_fields(
             c, DropPrefix(name, STR_SML \o STR_DEVICELOG \o STR_DEVICE), d, o, g)
    ELSE IF HasPrefix(name, STR_SML \o STR_DEVICELOG \o STR_HEADER)
    THEN traverse_header_fields(
             c, DropPrefix(name, STR_SML \o STR_DEVICELOG \o STR_HEADER), d, o, g)
    ELSE c

traverse_fields(c, type, name, d, o, g) ==
    CASE type = 1 -> set_depth_field(add_time_field(c, array_uint16_le(d, o, g)),
                                     array_uint16_le(d, o + 2, g))
      [] type = 2 -> add_time_field(c, array_uint16_le(d, o, g))
      [] type = 3 -> set_depth_field(c, array_uint16_le(d, o, g))
      [] type = 13 -> add_gas_type(c)
      [] type = 14 -> add_gas_o2(c, Rd(d, o, g))
      [] type = 15 -> add_gas_he(c, Rd(d, o, g))
      [] type = 17 -> add_string(c, "Transmitter ID", cstr(d, o, g))
      [] OTHER -> IF type > 255 THEN traverse_dynamic_fields(c, name, d, o, g)
                  ELSE c

\* struct sample_data, with the samples delivered so far.
eonsteel_sample_data(cb) ==
    [callback |-> cb, time |-> 0, state_type |-> 0, notify_type |-> 0,
     warning_type |-> 0, alarm_type |-> 0, stream |-> <<>>]

eonsteel_emit(info, sample) ==
    IF info.callback THEN [info EXCEPT !.stream = Append(@, sample)] ELSE info

sample_time(info, time_delta) ==
    LET t == U32(info.time + time_delta) IN
    eonsteel_emit([info EXCEPT !.time = t], <<"TIME", t \div 1000>>)

sample_depth(info, depth) ==
    IF depth = 65535 THEN info ELSE eonsteel_emit(info, <<"DEPTH", depth>>)

sample_temp(info, temp) ==
    IF temp < -3000 THEN info ELSE eonsteel_emit(info, <<"TEMPERATURE", temp>>)

sample_deco(info, ndl, tts, ceiling) ==
    IF ndl < 0
    THEN eonsteel_emit(info, <<"DECO", "DECOSTOP",
                               IF tts # 65535 THEN tts ELSE 0,
                               IF ceiling # 65535 THEN ceiling ELSE 0>>)
    ELSE eonsteel_emit(info, <<"DECO", "NDL", ndl, 0>>)

sample_cylinder_pressure(info, idx, pressure) ==
    IF pressure = 65535 THEN info
    ELSE eonsteel_emit(info, <<"PRESSURE", U32(idx - 1), pressure>>)

sample_bookmark_event(info, idx) ==
    eonsteel_emit(info, <<"EVENT", "BOOKMARK", idx, 0>>)

sample_gas_switch_event(info, c, idx) ==
    IF idx < 1 \/ idx > c.ngases THEN info
    ELSE eonsteel_emit(info, <<"EVENT", "GASCHANGE2",
                               c.gasmix[idx].oxygen + 65536 * c.gasmix[idx].helium,
                               idx>>)

translate_notification ==
    <<None, None, None, "TISSUELEVEL", None, None, "SAFETYSTOP_VOLUNTARY",
      "SAFETYSTOP", "CEILING_SAFETYSTOP", None, "DEEPSTOP", "DIVETIME",
      None, None, None, None>>

translate_warning ==
    <<None, "VIOLATION", "SAFETYSTOP_MANDATORY", None, None, None, None,
      "AIRTIME", "MAXDEPTH", "AIRTIME", "CEILING_SAFETYSTOP",
      "CEILING_SAFETYSTOP", "CEILING", "PO2">>

translate_alarm ==
    <<"CEILING_SAFETYSTOP", "ASCENT", None, "VIOLATION", "CEILING", "PO2",
      "PO2">>

\* sample_event_notify_value, _warning_value and _alarm_value: the event
\* of the type last announced, with a begin (1) or end (2) flag as value.
sample_event_value(info, table, type, value) ==
    IF type > Len(table) - 1 \/ table[type + 1] = None THEN info
    ELSE eonsteel_emit(info, <<"EVENT", table[type + 1],
                               IF value # 0 THEN 1 ELSE 2, 0>>)

traverse_samples(info, c, type, d, o, g) ==
    CASE type = 1 ->
            sample_deco(
                sample_temp(
                    sample_depth(sample_time(info, array_uint16_le(d, o, g)),
                                 array_uint16_le(d, o + 2, g)),
                    int16(array_uint16_le(d, o + 4, g))),
                int16(array_uint16_le(d, o + 8, g)),
                array_uint16_le(d, o + 10, g), array_uint16_le(d, o + 12, g))
      [] type = 2 -> sample_time(info, array_uint16_le(d, o, g))
      [] type = 3 -> sample_depth(info, array_uint16_le(d, o, g))
      [] type = 10 ->
            sample_cylinder_pressure(info, Rd(d, o, g),
                                     array_uint16_le(d, o + 1, g))
      [] type = 19 -> [info EXCEPT !.state_type = Rd(d, o, g)]
      [] type = 21 -> [info EXCEPT !.notify_type = Rd(d, o, g)]
      [] type = 22 ->
            sample_event_value(info, translate_notification, info.notify_type,
                               Rd(d, o, g))
      [] type = 23 -> [info EXCEPT !.warning_type = Rd(d, o, g)]
      [] type = 24 ->
            sample_event_value(info, translate_warning, info.warning_type,
                               Rd(d, o, g))
      [] type = 25 -> [info EXCEPT !.alarm_type = Rd(d, o, g)]
      [] type = 26 ->
            sample_event_value(info, translate_alarm, info.alarm_type,
                               Rd(d, o, g))
      [] type = 28 -> sample_bookmark_event(info, array_uint16_le(d, o, g))
      [] type = 29 ->
            sample_gas_switch_event(info, c, array_uint16_le(d, o, g))
      [] OTHER -> info

\* The callback of a traversal: the field cache (user = the parser) or the
\* sample data.
eonsteel_callback(mode, c, st, type, name, d, o, g) ==
    IF mode = "fields" THEN traverse_fields(st, type, name, d, o, g)
    ELSE traverse_samples(st, c, type, d, o, g)

\* The record loop of traverse_entry, from `end` up to one_past_end.  A
\* length with its top bit set moves `end` past one_past_end, which ends the
\* loop.
RECURSIVE traverse_records(_, _, _, _, _, _, _, _)
traverse_records(mode, c, td, d, end, one_past_end, g, st) ==
    IF ~(end < one_past_end /\ Rd(d, end, g) # 0)
    THEN [end |-> end, st |-> st, fault |-> FALSE]
    ELSE LET next(len, e4, st2) ==
               IF len < 0 THEN [end |-> e4 + len, st |-> st2, fault |-> FALSE]
               ELSE traverse_records(mode, c, td, d, e4 + len, one_past_end, g,
                                     st2)
             call(type, len, e4) ==
               IF ~type_out_of_range(type) /\ type_desc_fault(type, g)
               THEN [end |-> end, st |-> st, fault |-> TRUE]
               ELSE
               next(len, e4,
                    IF type_out_of_range(type) \/ type_desc_name(td, type) = <<>>
                    THEN st
                    ELSE eonsteel_callback(mode, c, st, type,
                                           type_desc_name(td, type)[1], d, e4, g))
             length(type, e2) ==
               call(type,
                    IF Rd(d, e2, g) = 255 THEN array_uint32_le(d, e2 + 1, g)
                                          ELSE Rd(d, e2, g),
                    IF Rd(d, e2, g) = 255 THEN e2 + 5 ELSE e2 + 1)
         IN length(IF Rd(d, end, g) = 255 THEN array_uint16_le(d, end + 1, g)
                                          ELSE Rd(d, end, g),
                   IF Rd(d, end, g) = 255 THEN end + 3 ELSE end + 1)

traverse_entry(mode, c, td, d, p, len, g, st) ==
    IF Rd(d, p, g) # 0 THEN [rc |-> -1, td |-> td, st |-> st, fault |-> FALSE]
    ELSE LET records(td2, r) ==
               [rc |-> eonsteel_int(r.end - p), td |-> td2, st |-> r.st,
                fault |-> r.fault]
             typed(dat, td2) ==
               records(td2,
                       traverse_records(mode, c, td2, d, dat, p + len, g, st))
             named(name, textlen) ==
               IF Rd(d, name + 2, g) # 60
               THEN [rc |-> -1, td |-> td, st |-> st, fault |-> FALSE]
               ELSE IF \E i \in record_type_index(array_uint16_le(d, name, g),
                                                  d, name + 2, g) :
                          type_desc_fault(i, g)
               THEN [rc |-> -1, td |-> td, st |-> st, fault |-> TRUE]
               ELSE typed(name + textlen,
                          record_type(td, array_uint16_le(d, name, g), d,
                                      name + 2, g))
         IN named(IF Rd(d, p + 1, g) = 255 THEN p + 6 ELSE p + 2,
                  IF Rd(d, p + 1, g) = 255
                  THEN eonsteel_int(array_uint32_le(d, p + 2, g))
                  ELSE Rd(d, p + 1, g))

\* The loop of traverse_data; an entry of size 0 is traversed for ever.
RECURSIVE traverse_entries(_, _, _, _, _, _, _, _)
traverse_entries(mode, c, td, d, off, len, g, st) ==
    IF ~(len > 4) THEN [td |-> td, st |-> st, hang |-> FALSE, fault |-> FALSE]
    ELSE LET next(r) ==
               IF r.fault
               THEN [td |-> r.td, st |-> r.st, hang |-> FALSE, fault |-> TRUE]
               ELSE IF r.rc < 0
               THEN [td |-> r.td, st |-> r.st, hang |-> FALSE, fault |-> FALSE]
               ELSE IF r.rc = 0
               THEN [td |-> r.td, st |-> r.st, hang |-> TRUE, fault |-> FALSE]
               ELSE traverse_entries(mode, c, r.td, d, off + r.rc, len - r.rc,
                                     g, r.st)
         IN next(traverse_entry(mode, c, td, d, off, len, g, st))

STR_SBEM == <<83, 66, 69, 77>>

traverse_data(mode, c, td, d, g, st) ==
    IF Len(d) < 12 \/ SubSeq(d, 5, 8) # STR_SBEM
    THEN [td |-> td, st |-> st, hang |-> FALSE, fault |-> FALSE]
    ELSE traverse_entries(mode, c, td, d, 12, Len(d) - 12, g, st)

initialize_field_caches(d, g) ==
    LET store(r) ==
          [type_desc |-> r.td,
           cache |-> [r.st EXCEPT !.divetime = @ \div 1000],
           hang |-> r.hang, fault |-> r.fault]
    IN store(traverse_data("fields", eonsteel_cache_zero, {}, d, g,
                           [eonsteel_cache_zero EXCEPT
                               !.initialized = Pow2(FieldIndex("DIVETIME"))]))

\* set_data: the parser after the call, or no return at all.
suunto_eonsteel_parser_set_data(c, d, g) == initialize_field_caches(d, g)

suunto_eonsteel_parser_samples_foreach(c, d, cb, g) ==
    LET walk(r) ==
          [status |-> IF r.fault THEN "FAULT"
                      ELSE IF r.hang THEN "HANG" ELSE "SUCCESS",
           stream |-> r.st.stream,
           cache |-> [c EXCEPT !.type_desc = r.td]]
    IN walk(traverse_data("samples", c.cache, c.type_desc, d, g,
                          eonsteel_sample_data(cb)))

\* field_value(value, x): a memcpy to value, which is undefined behaviour
\* when value is NULL: the call returns or faults.
field_value(hasvalue, g) ==
    IF hasvalue \/ g = 0 THEN "SUCCESS" ELSE "FAULT"

get_string_field(c, idx, hasvalue, g) ==
    IF idx < MAXSTRINGS /\ idx < Len(c.cache.strings)
    THEN FieldResult(field_value(hasvalue, g), c.cache.strings[idx + 1], c)
    ELSE FieldResult("UNSUPPORTED", None, c)

suunto_eonsteel_parser_get_field(c, type, flags, hasvalue, g) ==
    IF c.cache.initialized \div Pow2(FieldIndex(type)) = 0
    THEN FieldResult("UNSUPPORTED", None, c)
    ELSE CASE type = "DIVETIME" ->
                FieldResult(field_value(hasvalue, g), c.cache.divetime, c)
           [] type = "MAXDEPTH" ->
                FieldResult(field_value(hasvalue, g), c.cache.maxdepth, c)
           [] type = "AVGDEPTH" ->
                FieldResult(field_value(hasvalue, g), c.cache.avgdepth, c)
           [] type = "GASMIX_COUNT" ->
                FieldResult(field_value(hasvalue, g), c.cache.ngases, c)
           [] type = "GASMIX" ->
                IF flags >= MAXGASES THEN FieldResult("UNSUPPORTED", None, c)
                ELSE FieldResult(field_value(hasvalue, g),
                                 c.cache.gasmix[flags + 1], c)
           [] type = "SALINITY" ->
                FieldResult(field_value(hasvalue, g), c.cache.salinity, c)
           [] type = "ATMOSPHERIC" ->
                FieldResult(field_value(hasvalue, g), c.cache.surface_pressure, c)
           [] type = "STRING" -> get_string_field(c, flags, hasvalue, g)
           [] OTHER -> FieldResult("UNSUPPORTED", None, c)

suunto_eonsteel_parser_get_datetime(d, g) ==
    IF Len(d) < 4 THEN [status |-> "UNSUPPORTED", value |-> None]
    ELSE [status |-> "SUCCESS", value |-> array_uint32_le(d, 0, g)]

\* A type entry: a zero byte, the text length, the type id, the descriptor
\* text with its terminating NUL, then the data records.
EonSteelEntry(type, text, records) ==
    <<0, Len(text) + 3>> \o LE16(type) \o text \o <<0>> \o records

EonSteelHeader == LE32(1400000000) \o STR_SBEM \o Zeros(4)

STR_GRP_SAMPLE == <<60, 71, 82, 80, 62, 115>>

STR_PTH_FIELD == <<60, 80, 84, 72, 62, 102, 10, 60, 70, 82, 77, 62, 117>>

STR_PTH_SURFACEPRESSURE ==
    <<60, 80, 84, 72, 62>> \o STR_SML \o STR_DEVICELOG \o STR_HEADER
        \o STR_SURFACEPRESSURE

\* Records: a group sample (1.5 s, 12.34 m, 20.0 C, NDL 99), a time step of
\* 1 s, a depth of 5.00 m.
EonSteelSampleSet ==
    {<<1, 14>> \o LE16(1500) \o LE16(1234) \o LE16(200) \o <<0, 0>>
         \o LE16(99) \o LE16(65535) \o LE16(65535),
     <<2, 2>> \o LE16(1000),
     <<3, 2>> \o LE16(500)}

EonSteelDescriptors(types) ==
    Concat([i \in 1..Len(types) |->
               EonSteelEntry(types[i],
                             IF types[i] = 1 THEN STR_GRP_SAMPLE
                             ELSE STR_PTH_FIELD, <<>>)])

\* An entry whose text length is stored in 32 bits, given as its four
\* bytes: the text length field counts the type id, the text and its NUL.
EonSteelLongEntry(textlen, type, text, records) ==
    <<0, 255>> \o textlen \o LE16(type) \o text \o <<0>> \o records

\* Entries with a text length of -6, of -7 and of 65536, and one whose 32-bit
\* text length is the true one, each followed by a time step record.
EonSteelLongEntries ==
    {EonSteelLongEntry(textlen, 2, STR_PTH_FIELD, <<2, 2>> \o LE16(1000)) :
        textlen \in {<<250, 255, 255, 255>>, <<249, 255, 255, 255>>,
                     <<0, 0, 1, 0>>, LE32(Len(STR_PTH_FIELD) + 3)}}

EonSteelBlobs ==
    {EonSteelHeader \o EonSteelDescriptors(<<1, 2, 3>>) \o Concat(ss) :
        ss \in SeqsUpTo(EonSteelSampleSet, MaxSamples)}
      \cup {EonSteelHeader \o EonSteelDescriptors(<<2, 13, 14, 15>>)
                \o <<13, 1, 1, 14, 1, gm[1], 15, 1, gm[2]>>
                \o <<2, 2>> \o LE16(2000) :
              gm \in {<<32, 0>>, <<60, 60>>}}
      \cup {EonSteelHeader \o EonSteelDescriptors(<<17>>) \o <<17, 3, 65, 66, 0>>,
            EonSteelHeader
                \o EonSteelEntry(257, STR_PTH_SURFACEPRESSURE,
                                 <<255, 1, 1, 4>> \o LE32(101325)),
            EonSteelHeader
                \o EonSteelEntry(3, STR_PTH_FIELD, <<2, 2>> \o LE16(1000))
                \o EonSteelEntry(2, STR_PTH_FIELD, <<>>),
            EonSteelHeader \o EonSteelDescriptors(<<1>>) \o <<1, 14, 232, 3>>,
            Zeros(12)}
      \cup {EonSteelHeader
                \o EonSteelEntry(type, STR_PTH_SURFACEPRESSURE,
                                 <<255>> \o LE16(type) \o <<4>> \o LE32(101325)) :
              type \in {MAXTYPE - 1, MAXTYPE, MAXTYPE + 1}}
      \cup {EonSteelHeader
                \o EonSteelEntry(257, STR_PTH_SURFACEPRESSURE,
                                 <<255>> \o LE16(MAXTYPE) \o <<4>>
                                     \o LE32(101325))}
      \cup {EonSteelHeader \o entry : entry \in EonSteelLongEntries}
      \cup {SubSeq(EonSteelHeader, 1, n) : n \in {0, 3, 8}}

(***************************************************************************)
(* Uwatec Memomouse parser (uwatec_memomouse_parser.c).  Depths are kept   *)
(* in units of 10/64 m, the temperature in quarter degrees, gas fractions  *)
(* in percent.                                                             *)
(***************************************************************************)
uwatec_memomouse_parser_create == [cached |-> 0]

uwatec_memomouse_parser_set_data(c, d) == c

\* m = [devtime, systime]
uwatec_memomouse_parser_get_datetime(m, d, g) ==
    IF Len(d) < 11 + 4 THEN [status |-> "DATAFORMAT", value |-> None]
    ELSE [status |-> "SUCCESS",
          value |-> m.systime
                      - UHalf(U32(m.devtime - array_uint32_le(d, 11, g)))]

memomouse_is_nitrox(d, g) == (Rd(d, 3, g) \div 16) * 16 = 240

memomouse_is_oxygen(d, g) == (Rd(d, 3, g) \div 16) * 16 = 160

memomouse_header(d, g) ==
    22 + (IF memomouse_is_nitrox(d, g) THEN 2 ELSE 0)
       + (IF memomouse_is_oxygen(d, g) THEN 3 ELSE 0)

uwatec_memomouse_parser_get_field(c, d, type, flags, hasvalue, g) ==
    IF Len(d) < 18 THEN FieldResult("DATAFORMAT", None, c)
    ELSE IF ~hasvalue THEN FieldResult("SUCCESS", None, c)
    ELSE CASE type = "DIVETIME" ->
                FieldResult("SUCCESS",
                    ((IF Bits(Rd(d, 4, g), 2, 1) = 1 THEN 100 ELSE 0)
                        + bcd2dec(Rd(d, 5, g))) * 60, c)
           [] type = "MAXDEPTH" ->
                FieldResult("SUCCESS", array_uint16_be(d, 6, g) \div 64, c)
           [] type = "GASMIX_COUNT" -> FieldResult("SUCCESS", 1, c)
           [] type = "GASMIX" ->
                FieldResult("SUCCESS",
                    [helium |-> 0,
                     oxygen |->
                        IF Len(d) >= memomouse_header(d, g) + 18
                        THEN IF memomouse_is_oxygen(d, g) THEN Rd(d, 18 + 23, g)
                             ELSE IF memomouse_is_nitrox(d, g)
                             THEN (IF Rd(d, 18 + 23, g) % 16 # 0
                                   THEN 20 + 2 * (Rd(d, 18 + 23, g) % 16)
                                   ELSE 21)
                             ELSE 21
                        ELSE 21], c)
           [] type = "TEMPERATURE_MINIMUM" ->
                FieldResult("SUCCESS", int8(Rd(d, 15, g)), c)
           [] OTHER -> FieldResult("UNSUPPORTED", None, c)

memomouse_warning ==
    <<"DECOSTOP", "RBT", "ASCENT", "CEILING", "WORKLOAD", "TRANSMITTER">>

memomouse_events(warnings) ==
    LET on == {i \in 0..5 : Bits(warnings, i, 1) = 1}
        RECURSIVE ev(_)
        ev(i) == IF i > 5 THEN <<>>
                 ELSE (IF i \in on THEN <<<<"EVENT", memomouse_warning[i + 1], 0>>>>
                       ELSE <<>>) \o ev(i + 1)
    IN ev(0)

RECURSIVE memomouse_samples_loop(_, _, _, _, _)
memomouse_samples_loop(d, g, time, offset, s) ==
    IF ~(offset + 2 <= Len(d)) THEN [status |-> "SUCCESS", stream |-> s]
    ELSE LET value == array_uint16_be(d, offset, g)
             s2 == s \o <<<<"TIME", time>>, <<"DEPTH", value \div 64>>>>
                     \o memomouse_events(value % 64)
             o2 == offset + 2
         IN IF time % 60 = 0
            THEN IF o2 + 1 > Len(d) THEN [status |-> "DATAFORMAT", stream |-> s2]
                 ELSE IF memomouse_is_oxygen(d, g) /\ o2 + 2 > Len(d)
                 THEN [status |-> "DATAFORMAT", stream |-> s2]
                 ELSE memomouse_samples_loop(d, g, time + 20,
                          o2 + (IF memomouse_is_oxygen(d, g) THEN 2 ELSE 1),
                          Append(s2, <<"VENDOR",
                                       IF memomouse_is_oxygen(d, g) THEN 2 ELSE 1>>))
            ELSE memomouse_samples_loop(d, g, time + 20, o2, s2)

uwatec_memomouse_parser_samples_foreach(c, d, cb, g) ==
    IF Len(d) < 18 THEN WalkResult("DATAFORMAT", <<>>, c)
    ELSE LET r == memomouse_samples_loop(d, g, 20, memomouse_header(d, g) + 18,
                                         <<>>)
         IN WalkResult(r.status, IF cb THEN r.stream ELSE <<>>, c)

MemomouseHeader(mdl) ==
    Patch(Patch(Patch(Zeros(memomouse_header(<<0, 0, 0, mdl>>, 0) + 18),
                      3, <<mdl, 0, 3>>), 6, BE16(6400)), 11, LE32(1000))

\* Depth samples of two bytes; the third sample of a minute is followed by
\* the decompression byte.
MemomouseSampleSet == {BE16(640), BE16(1280 + 5)}

MemomouseBlobs ==
    {MemomouseHeader(mdl) \o Concat(ss) \o tail :
        mdl \in {0, 160, 240},
        ss \in SeqsUpTo(MemomouseSampleSet, MaxSamples),
        tail \in {<<>>, <<7>>}}
      \cup {MemomouseHeader(mdl) \o BE16(640) \o BE16(640) \o BE16(640) \o tail :
              mdl \in {0, 160}, tail \in {<<>>, <<7>>, <<7, 32>>}}
      \cup {SubSeq(MemomouseHeader(0), 1, n) : n \in {0, 14, 17}}

(***************************************************************************)
(* The parser interface: one parser object of a family, created with its   *)
(* construction parameters, and the four operations of its vtable.         *)
(***************************************************************************)
Params(mdl, spyder, petrel) ==
    [model |-> mdl, spyder |-> spyder, petrel |-> petrel, serial |-> 1234,
     devtime |-> 1000000, systime |-> 1500000000]

Configs ==
    {<<"idive", Params("-", 0, 0)>>, <<"cressi", Params("-", 0, 0)>>,
     <<"eon", Params("-", 0, 0)>>, <<"eon", Params("-", 1, 0)>>,
     <<"sensusultra", Params("-", 0, 0)>>, <<"sensuspro", Params("-", 0, 0)>>,
     <<"shearwater", Params("-", 0, 0)>>, <<"shearwater", Params("-", 0, 1)>>,
     <<"vtpro", Params("-", 0, 0)>>, <<"eonsteel", Params("-", 0, 0)>>,
     <<"memomouse", Params("-", 0, 0)>>}
      \cup {<<"atom2", Params(mdl, 0, 0)>> : mdl \in Atom2Models}
      \cup {<<"smart", Params(mdl, 0, 0)>> : mdl \in SmartModels}

\* The blobs handed to set_data, per family and model.
Blobs(f, m) ==
    CASE f = "idive" -> IdiveBlobs
      [] f = "cressi" -> CressiBlobs
      [] f = "eon" -> EonBlobs
      [] f = "sensusultra" -> SensusUltraBlobs
      [] f = "sensuspro" -> SensusProBlobs
      [] f = "shearwater" -> ShearwaterBlobs
      [] f = "vtpro" -> VtproBlobs
      [] f = "atom2" -> Atom2Blobs
      [] f = "smart" -> SmartBlobs(m.model)
      [] f = "eonsteel" -> EonSteelBlobs
      [] f = "memomouse" -> MemomouseBlobs

AllBlobs == UNION {Blobs(cf[1], cf[2]) : cf \in Configs}

\* The bytes that may lie behind the end of a buffer.
Garbage == {0, 255}

\* The year of the host clock.
Nows == {2009, 2015}

FieldTypeSet == {dc_field_type_t[i] : i \in 1..Len(dc_field_type_t)}

\* The capacity of the gas mix table of a family that caches one.
GasmixCapacity(f) ==
    CASE f = "idive" -> IDIVE_NGASMIXES
      [] f = "shearwater" -> SHEARWATER_NGASMIXES
      [] f = "smart" -> SMART_NGASMIXES

\* The indices asked for: the first ones and, for a gas mix, the first
\* index behind each of the gas mix tables.
FlagSet(type) ==
    IF type = "GASMIX"
    THEN 0..MaxFlags
            \cup {GasmixCapacity(f) : f \in {"idive", "shearwater", "smart"}}
    ELSE IF type \in {"TANK", "STRING"} THEN 0..MaxFlags ELSE {0}

dc_parser_create(f) ==
    CASE f = "idive" -> divesystem_idive_parser_create
      [] f = "cressi" -> cressi_leonardo_parser_create
      [] f = "eon" -> suunto_eon_parser_create
      [] f = "sensusultra" -> reefnet_sensusultra_parser_create
      [] f = "sensuspro" -> reefnet_sensuspro_parser_create
      [] f = "shearwater" -> shearwater_predator_parser_create
      [] f = "vtpro" -> oceanic_vtpro_parser_create
      [] f = "atom2" -> oceanic_atom2_parser_create
      [] f = "smart" -> uwatec_smart_parser_create
      [] f = "eonsteel" -> suunto_eonsteel_parser_create
      [] f = "memomouse" -> uwatec_memomouse_parser_create

\* set_data through the vtable: the parser after the call, and whether the
\* call fails to return.
dc_parser_set_data(f, m, c, d, g) ==
    CASE f = "idive" ->
            [cache |-> divesystem_idive_parser_set_data(c, d), hang |-> FALSE,
             fault |-> FALSE]
      [] f = "cressi" ->
            [cache |-> cressi_leonardo_parser_set_data(c, d), hang |-> FALSE,
             fault |-> FALSE]
      [] f = "eon" -> [cache |-> suunto_eon_parser_set_data(c, d), hang |-> FALSE,
             fault |-> FALSE]
      [] f = "sensusultra" ->
            [cache |-> reefnet_sensusultra_parser_set_data(c, d), hang |-> FALSE,
             fault |-> FALSE]
      [] f = "sensuspro" ->
            [cache |-> reefnet_sensuspro_parser_set_data(c, d), hang |-> FALSE,
             fault |-> FALSE]
      [] f = "shearwater" ->
            [cache |-> shearwater_predator_parser_set_data(c, d), hang |-> FALSE,
             fault |-> FALSE]
      [] f = "vtpro" ->
            [cache |-> oceanic_vtpro_parser_set_data(c, d), hang |-> FALSE,
             fault |-> FALSE]
      [] f = "atom2" ->
            [cache |-> oceanic_atom2_parser_set_data(c, d), hang |-> FALSE,
             fault |-> FALSE]
      [] f = "smart" ->
            [cache |-> uwatec_smart_parser_set_data(c, d), hang |-> FALSE,
             fault |-> FALSE]
      [] f = "eonsteel" ->
            LET parsed(r) ==
                  [cache |-> [type_desc |-> r.type_desc, cache |-> r.cache],
                   hang |-> r.hang, fault |-> r.fault]
            IN parsed(suunto_eonsteel_parser_set_data(c, d, g))
      [] f = "memomouse" ->
            [cache |-> uwatec_memomouse_parser_set_data(c, d), hang |-> FALSE,
             fault |-> FALSE]

\* A value written to the caller, as a sequence of at most one element.
Written(r, hasvalue) ==
    IF r.status = "SUCCESS" /\ hasvalue THEN <<r.value>> ELSE <<>>

dc_parser_get_field(f, m, c, d, type, flags, hasvalue, g) ==
    LET result(r) ==
          [status |-> r.status, value |-> Written(r, hasvalue),
           cache |-> r.cache]
    IN result(CASE f = "idive" ->
                    divesystem_idive_parser_get_field(c, d, type, flags, hasvalue, g)
               [] f = "cressi" ->
                    cressi_leonardo_parser_get_field(c, d, type, flags, hasvalue, g)
               [] f = "eon" ->
                    suunto_eon_parser_get_field(m.spyder, c, d, type, flags,
                                                hasvalue, g)
               [] f = "sensusultra" ->
                    reefnet_sensusultra_parser_get_field(c, d, type, flags,
                                                         hasvalue, g)
               [] f = "sensuspro" ->
                    reefnet_sensuspro_parser_get_field(c, d, type, flags,
                                                       hasvalue, g)
               [] f = "shearwater" ->
                    shearwater_predator_parser_get_field(m, c, d, type, flags,
                                                         hasvalue, g)
               [] f = "vtpro" ->
                    oceanic_vtpro_parser_get_field(c, d, type, flags, hasvalue, g)
               [] f = "atom2" ->
                    oceanic_atom2_parser_get_field(m, c, d, type, flags, hasvalue, g)
               [] f = "smart" ->
                    uwatec_smart_parser_get_field(m, c, d, type, flags, hasvalue, g)
               [] f = "eonsteel" ->
                    suunto_eonsteel_parser_get_field(c, type, flags, hasvalue, g)
               [] f = "memomouse" ->
                    uwatec_memomouse_parser_get_field(c, d, type, flags, hasvalue, g))

dc_parser_samples_foreach(f, m, c, d, cb, g) ==
    LET result(r) ==
          [status |-> r.status, stream |-> r.stream, cache |-> r.cache]
    IN result(CASE f = "idive" -> divesystem_idive_parser_samples_foreach(c, d, cb, g)
               [] f = "cressi" -> cressi_leonardo_parser_samples_foreach(c, d, cb, g)
               [] f = "eon" ->
                    suunto_eon_parser_samples_foreach(m.spyder, c, d, cb, g)
               [] f = "sensusultra" ->
                    reefnet_sensusultra_parser_samples_foreach(c, d, cb, g)
               [] f = "sensuspro" ->
                    reefnet_sensuspro_parser_samples_foreach(c, d, cb, g)
               [] f = "shearwater" ->
                    shearwater_predator_parser_samples_foreach(m, c, d, cb, g)
               [] f = "vtpro" -> oceanic_vtpro_parser_samples_foreach(c, d, cb, g)
               [] f = "atom2" -> oceanic_atom2_parser_samples_foreach(m, c, d, cb, g)
               [] f = "smart" -> uwatec_smart_parser_samples_foreach(m, c, d, cb, g)
               [] f = "eonsteel" ->
                    suunto_eonsteel_parser_samples_foreach(c, d, cb, g)
               [] f = "memomouse" ->
                    uwatec_memomouse_parser_samples_foreach(c, d, cb, g))

dc_parser_get_datetime(f, m, d, g, now) ==
    LET result(r) == [status |-> r.status, value |-> Written(r, TRUE)]
    IN result(CASE f = "idive" -> divesystem_idive_parser_get_datetime(d, g)
               [] f = "cressi" -> cressi_leonardo_parser_get_datetime(d, g)
               [] f = "eon" -> suunto_eon_parser_get_datetime(m.spyder, d, g)
               [] f = "sensusultra" -> reefnet_sensusultra_parser_get_datetime(m, d, g)
               [] f = "sensuspro" -> reefnet_sensuspro_parser_get_datetime(m, d, g)
               [] f = "shearwater" -> shearwater_predator_parser_get_datetime(d, g)
               [] f = "vtpro" -> oceanic_vtpro_parser_get_datetime(d, g)
               [] f = "atom2" -> oceanic_atom2_parser_get_datetime(m, d, g, now)
               [] f = "smart" -> uwatec_smart_parser_get_datetime(m, d, g)
               [] f = "eonsteel" -> suunto_eonsteel_parser_get_datetime(d, g)
               [] f = "memomouse" -> uwatec_memomouse_parser_get_datetime(m, d, g))

\* No device enumeration is part of the parser specification.
NoDevice == [kind |-> "none"]

\* What the last call returned and delivered, with its arguments.
NoRet ==
    [op |-> "none", type |-> "none", flags |-> 0, hasvalue |-> FALSE,
     cb |-> FALSE, g |-> 0, now |-> 0, status |-> "none", value |-> <<>>,
     stream |-> <<>>]

Init ==
    /\ \E cf \in Configs : family = cf[1] /\ model = cf[2]
    /\ data = <<>>
    /\ installed = FALSE
    /\ primed = FALSE
    /\ cache = dc_parser_create(family)
    /\ pc = "idle"
    /\ ret = NoRet
    /\ dev = NoDevice

SetData(b, g) ==
    /\ pc = "idle"
    /\ b \in Blobs(family, model)
    /\ LET returned(r) ==
              /\ cache' = r.cache
              /\ pc' = IF r.fault THEN "fault"
                       ELSE IF r.hang THEN "hung" ELSE "idle"
       IN returned(dc_parser_set_data(family, model, cache, b, g))
    /\ data' = b
    /\ installed' = TRUE
    /\ primed' = (cache # dc_parser_create(family))
    /\ ret' = NoRet
    /\ UNCHANGED <<family, model, dev>>

GetField(type, flags, hasvalue, g) ==
    /\ pc = "idle"
    /\ LET returned(r) ==
              /\ cache' = r.cache
              /\ ret' = [NoRet EXCEPT !.op = "get_field", !.type = type,
                                      !.flags = flags, !.hasvalue = hasvalue,
                                      !.g = g, !.status = r.status,
                                      !.value = r.value]
       IN returned(dc_parser_get_field(family, model, cache, data, type, flags,
                                       hasvalue, g))
    /\ pc' = "done"
    /\ UNCHANGED <<family, model, data, installed, primed, dev>>

SamplesForeach(cb, g) ==
    /\ pc = "idle"
    /\ LET returned(r) ==
              /\ cache' = r.cache
              /\ ret' = [NoRet EXCEPT !.op = "samples_foreach", !.cb = cb,
                                      !.g = g, !.status = r.status,
                                      !.stream = r.stream]
       IN returned(dc_parser_samples_foreach(family, model, cache, data, cb, g))
    /\ pc' = "done"
    /\ UNCHANGED <<family, model, data, installed, primed, dev>>

GetDatetime(g, now) ==
    /\ pc = "idle"
    /\ LET returned(r) ==
              ret' = [NoRet EXCEPT !.op = "get_datetime", !.g = g, !.now = now,
                                   !.status = r.status, !.value = r.value]
       IN returned(dc_parser_get_datetime(family, model, data, g, now))
    /\ pc' = "done"
    /\ UNCHANGED <<family, model, data, installed, primed, cache, dev>>

\* The caller takes the result and is ready for the next call.
Return ==
    /\ pc = "done"
    /\ pc' = "idle"
    /\ ret' = NoRet
    /\ UNCHANGED <<family, model, data, installed, primed, cache, dev>>

Next ==
    \/ \E b \in AllBlobs, g \in Garbage : SetData(b, g)
    \/ \E type \in FieldTypeSet, hasvalue \in BOOLEAN, g \in Garbage :
          \E flags \in FlagSet(type) : GetField(type, flags, hasvalue, g)
    \/ \E cb \in BOOLEAN, g \in Garbage : SamplesForeach(cb, g)
    \/ \E g \in Garbage, now \in Nows : GetDatetime(g, now)
    \/ Return

Spec == Init /\ [][Next]_vars

(***************************************************************************)
(* Properties of the parsers, stated on the state in which a call has      *)
(* returned (pc = "done") and ret holds its arguments and its results.     *)
(***************************************************************************)
Returned(op) == pc = "done" /\ ret.op = op

\* The value of the last TIME sample of a stream that has one.
LastTime(stream) == Times(stream)[Len(Times(stream))][2]

\* C1: within one samples_foreach call, of every family and on every blob,
\* the values delivered as TIME samples never decrease.
C1_TimeNonDecreasing ==
    Returned("samples_foreach") => NonDecreasing(Times(ret.stream))

\* A VT Pro dive in depth-triggered mode whose two samples share a minute:
\* their times lie apart, and less than a minute apart.
C1_Witness ==
    /\ Returned("samples_foreach")
    /\ ret.status = "SUCCESS"
    /\ family = "vtpro"
    /\ vtpro_interval(data, 0) = 0
    /\ Len(Times(ret.stream)) = 2
    /\ Times(ret.stream)[1][2] < Times(ret.stream)[2][2]
    /\ Times(ret.stream)[2][2] < Times(ret.stream)[1][2] + 60

\* The last call, repeated on a parser created afresh with the same
\* parameters and given the installed blob once.
FreshCache(g2) ==
    dc_parser_set_data(family, model, dc_parser_create(family), data, g2)

\* Bytes behind the end of a blob are not determined by the blob, so the
\* fresh parser is compared under each content g3 they may have.
SameAsFresh(c, g3) ==
    CASE ret.op = "get_field" ->
           LET same(r) == r.status = ret.status /\ r.value = ret.value
           IN same(dc_parser_get_field(family, model, c, data, ret.type,
                                       ret.flags, ret.hasvalue, g3))
      [] ret.op = "samples_foreach" ->
           LET same(r) == r.status = ret.status /\ r.stream = ret.stream
           IN same(dc_parser_samples_foreach(family, model, c, data, ret.cb,
                                             g3))
      [] OTHER -> TRUE

\* C2: after any sequence of set_data, get_field and samples_foreach calls,
\* get_field and samples_foreach return what a freshly created parser
\* returns for the blob installed last.
C2_CacheFollowsData ==
    (pc = "done" /\ installed /\ ret.op \in {"get_field", "samples_foreach"})
        => \E g2 \in Garbage, g3 \in Garbage :
              LET fresh(r) == ~r.hang /\ ~r.fault /\ SameAsFresh(r.cache, g3)
              IN fresh(FreshCache(g2))

\* A blob installed in an EON parser that held the cached fields of an
\* earlier blob, and the DIVETIME then returned from the refilled cache.
C2_Witness ==
    /\ Returned("get_field")
    /\ installed
    /\ primed
    /\ family = "eon"
    /\ ret.type = "DIVETIME"
    /\ ret.status = "SUCCESS"
    /\ ret.value = <<cache.divetime>>
    /\ cache.cached = 1
    /\ cache.divetime > 0

\* The size below which the family rejects a blob: the header size checked
\* by its operations.
MinSize(f, m) ==
    CASE f = "idive" -> IDIVE_SZ_HEADER
      [] f = "cressi" -> CRESSI_SZ_HEADER
      [] f = "eon" -> 13
      [] f = "sensusultra" -> 20
      [] f = "sensuspro" -> 12
      [] f = "shearwater" -> 2 * SZ_BLOCK
      [] f = "vtpro" -> (7 * PAGESIZE) \div 2
      [] f = "atom2" -> atom2_headersize(m.model) + atom2_footersize(m.model)
      [] f = "smart" -> smart_layout(m.model).headersize
      [] f = "eonsteel" -> 12
      [] f = "memomouse" -> 18

\* C3: on a blob shorter than the minimum size of the family every
\* operation returns DATAFORMAT, no operation depends on a byte behind the
\* end of the blob, and get_datetime fails with DATAFORMAT only.
C3_ShortBlobRejected ==
    (pc = "done" /\ installed) =>
        /\ Len(data) < MinSize(family, model) => ret.status = "DATAFORMAT"
        /\ (ret.op = "get_datetime" /\ ret.status # "SUCCESS")
              => ret.status = "DATAFORMAT"
        /\ ret.op = "get_datetime"
              => \A g \in Garbage :
                    LET same(r) == r.status = ret.status /\ r.value = ret.value
                    IN same(dc_parser_get_datetime(family, model, data, g,
                                                   ret.now))

\* The kinds that get_field of the family decodes for some model.
Decoded(f) ==
    CASE f = "idive" ->
           {"DIVETIME", "MAXDEPTH", "GASMIX_COUNT", "GASMIX", "ATMOSPHERIC"}
      [] f = "cressi" ->
           {"DIVETIME", "MAXDEPTH", "GASMIX_COUNT", "GASMIX",
            "TEMPERATURE_MINIMUM"}
      [] f = "eon" ->
           {"DIVETIME", "MAXDEPTH", "GASMIX_COUNT", "GASMIX", "TANK_COUNT",
            "TANK", "TEMPERATURE_MINIMUM"}
      [] f \in {"sensusultra", "sensuspro"} ->
           {"DIVETIME", "MAXDEPTH", "GASMIX_COUNT", "DIVEMODE"}
      [] f = "shearwater" ->
           {"DIVETIME", "MAXDEPTH", "GASMIX_COUNT", "GASMIX", "SALINITY",
            "ATMOSPHERIC", "STRING"}
      [] f = "vtpro" -> {"DIVETIME", "MAXDEPTH", "GASMIX_COUNT", "GASMIX"}
      [] f = "atom2" ->
           {"DIVETIME", "MAXDEPTH", "GASMIX_COUNT", "GASMIX", "SALINITY",
            "DIVEMODE", "STRING"}
      [] f = "smart" ->
           {"DIVETIME", "MAXDEPTH", "GASMIX_COUNT", "GASMIX", "TANK_COUNT",
            "TANK", "TEMPERATURE_MINIMUM", "TEMPERATURE_MAXIMUM",
            "TEMPERATURE_SURFACE", "DIVEMODE", "SALINITY"}
      [] f = "eonsteel" ->
           {"DIVETIME", "MAXDEPTH", "AVGDEPTH", "GASMIX_COUNT", "GASMIX",
            "SALINITY", "ATMOSPHERIC", "STRING"}
      [] f = "memomouse" ->
           {"DIVETIME", "MAXDEPTH", "GASMIX_COUNT", "GASMIX",
            "TEMPERATURE_MINIMUM"}

\* The bit of a kind in the initialized mask of the EON Steel field cache.
Populated(c, type) == (c.cache.initialized \div Pow2(FieldIndex(type))) % 2 = 1

\* C4: get_field does not return SUCCESS for a kind that the family does not
\* decode, with or without a destination for the value, and the EON Steel
\* parser returns UNSUPPORTED for a kind that no record of the blob populated.
C4_UndecodedUnsupported ==
    Returned("get_field") =>
        /\ ret.type \notin Decoded(family) => ret.status # "SUCCESS"
        /\ (family = "eonsteel" /\ ~Populated(cache, ret.type))
              => ret.status = "UNSUPPORTED"

\* DIVETIME as get_field returns it after the walk that has just returned.
DiveTimeAfter ==
    dc_parser_get_field(family, model, cache, data, "DIVETIME", 0, TRUE, ret.g)

\* A walk that delivered at least one TIME sample to a callback.
TimedWalk ==
    /\ Returned("samples_foreach")
    /\ installed
    /\ ret.cb
    /\ ret.status = "SUCCESS"
    /\ Times(ret.stream) # <<>>

\* C5 as claimed: in every family the last TIME sample of a successful walk
\* equals the DIVETIME that get_field returns with SUCCESS.
C5_LastTimeIsDivetime ==
    TimedWalk =>
        LET agree(r) ==
              r.status = "SUCCESS" => r.value = <<LastTime(ret.stream)>>
        IN agree(DiveTimeAfter)

\* The families whose DIVETIME is the time reached by the sample walk.
WalkDerivedDivetime ==
    \/ family \in {"idive", "vtpro"}
    \/ family = "atom2" /\ model.model \notin {"F10", "F11"}

\* C5, amended: where DIVETIME is taken from the sample walk, the last TIME
\* sample of a successful walk equals the DIVETIME returned with SUCCESS.
C5_WalkDivetimeIsLastTime ==
    (TimedWalk /\ WalkDerivedDivetime) =>
        LET agree(r) ==
              r.status = "SUCCESS" => r.value = <<LastTime(ret.stream)>>
        IN agree(DiveTimeAfter)

\* An iDive walk over two samples, after which DIVETIME is the second time.
C5_Witness ==
    /\ TimedWalk
    /\ family = "idive"
    /\ Len(Times(ret.stream)) = 2
    /\ LastTime(ret.stream) = 20
    /\ DiveTimeAfter.status = "SUCCESS"
    /\ DiveTimeAfter.value = <<20>>

\* The stored timestamp of the k-th complete sample of an iDive blob.
IdiveStored(d, k) ==
    array_uint32_le(d, IDIVE_SZ_HEADER + k * IDIVE_SZ_SAMPLE + 2, 0)

IdiveBackwards(d) ==
    \E k \in 1..((Len(d) - IDIVE_SZ_HEADER) \div IDIVE_SZ_SAMPLE - 1) :
        ULt(IdiveStored(d, k), IdiveStored(d, k - 1))

\* The offsets of the sample slots of a VT Pro blob, and the slots in use.
VtproSlots(d) ==
    {o \in 0..Len(d) : /\ o >= (5 * PAGESIZE) \div 2
                       /\ (o - (5 * PAGESIZE) \div 2) % (PAGESIZE \div 2) = 0
                       /\ o + PAGESIZE \div 2 <= Len(d) - PAGESIZE}

VtproUsed(d, o) == ~array_isequal(d, o, PAGESIZE \div 2, 0, 0)

VtproBackwards(d) ==
    /\ Len(d) >= (7 * PAGESIZE) \div 2
    /\ \E j \in VtproSlots(d), k \in VtproSlots(d) :
          /\ j < k
          /\ VtproUsed(d, j)
          /\ VtproUsed(d, k)
          /\ \A o \in VtproSlots(d) : (j < o /\ o < k) => ~VtproUsed(d, o)
          /\ vtpro_timestamp(d, k, 0) < vtpro_timestamp(d, j, 0)

BackwardsTimestamp ==
    \/ family = "idive" /\ IdiveBackwards(data)
    \/ family = "vtpro" /\ VtproBackwards(data)

\* C6: when a sample of the blob stores a timestamp lower than the sample
\* before it, samples_foreach and get_field return DATAFORMAT (iDive and
\* VT Pro).
C6_BackwardsTimestampRejected ==
    (pc = "done" /\ installed /\ ret.op \in {"samples_foreach", "get_field"}
        /\ BackwardsTimestamp)
        => ret.status = "DATAFORMAT"

\* The iDive blob with the timestamps 10 then 9, walked and rejected.
C6_Witness ==
    /\ Returned("samples_foreach")
    /\ installed
    /\ family = "idive"
    /\ Len(data) = IDIVE_SZ_HEADER + 2 * IDIVE_SZ_SAMPLE
    /\ IdiveStored(data, 0) = 10
    /\ IdiveStored(data, 1) = 9
    /\ ret.status = "DATAFORMAT"

\* C7: a gas mix returned with SUCCESS has oxygen and helium between 0 and
\* 100 percent and their sum at most 100 percent.
C7_GasMixInvariant ==
    (Returned("get_field") /\ ret.type = "GASMIX" /\ ret.status = "SUCCESS"
        /\ ret.value # <<>>)
        => LET valid(mix) ==
                 /\ mix.oxygen \in 0..100
                 /\ mix.helium \in 0..100
                 /\ mix.oxygen + mix.helium <= 100
           IN valid(ret.value[1])

(***************************************************************************)
(* Device enumeration: divesystem_idive_device_foreach (divesystem_idive.c)*)
(* and suunto_common2_device_foreach (suunto_common2.c).  dev holds the    *)
(* locals of the call, the content of the device, and two observations:    *)
(* events, the transfers started, the answers accepted and the callbacks   *)
(* made, in order; allocs and frees, the count of allocations and releases *)
(* of the dive buffer.  A foreach advances by one exchange with the device *)
(* or one call of the callback per step.  attempts and reply describe the  *)
(* transfer made last: the passes of its loop so far, and what the device  *)
(* answered in the last of them; slept, the milliseconds that the iDive    *)
(* transfer made last has slept between its passes.  The events emitted to *)
(* the caller (PROGRESS, DEVINFO, VENDOR) and the dives traversed in a     *)
(* Common2 ring (DIVE) are part of the events as well.                     *)
(***************************************************************************)
\* The dives a device holds, and the samples of a dive, at most.
MaxDives == 2

MaxDiveSamples == 2

IDIVE_MAXRETRIES == 9

NSTEPS == 1000

\* A step that is rounded up.
STEP_up(i, n) == (NSTEPS * i + n - 1) \div n + 1

\* STEP(i,n): NSTEPS * (i) / (n)
STEP(i, n) == (NSTEPS * i) \div n

\* UINT_MAX, as the 32-bit integers of the model hold it.
UINT_MAX == U32(0 - 1)

\* EVENT_PROGRESS_INITIALIZER: {0, UINT_MAX}
EVENT_PROGRESS_INITIALIZER == [current |-> 0, maximum |-> UINT_MAX]

\* device_event_emit: the event joins what the caller has seen of the call.
device_event_emit(d, event) == [d EXCEPT !.events = Append(@, event)]

\* device_event_emit (abstract, DC_EVENT_PROGRESS, &progress)
emit_progress(d) ==
    device_event_emit(d, <<"PROGRESS", d.progress.current, d.progress.maximum>>)

\* What one pass of the transfer loop may meet: the cancellation signal, a
\* failing write or read on the serial line, a malformed packet, an answer
\* to another command, a NAK (busy, or another error code, or of a wrong
\* length), a byte that is neither ACK nor NAK, an ACK of the wrong length,
\* and the ACK expected.
IdiveReplies ==
    {"cancelled", "write_io", "write_timeout", "read_io", "read_timeout",
     "badlength", "crc", "wrongcmd", "nak_busy", "nak_other", "nak_long",
     "noack", "ack_short", "ack"}

\* A transfer with one retry more in its budget.
divesystem_idive_transfer_patient(reply, nretries) ==
    CASE reply = "cancelled" -> "CANCELLED"
      [] reply \in {"write_io", "read_io"} -> "IO"
      [] reply \in {"write_timeout", "read_timeout"} -> "TIMEOUT"
      [] reply = "nak_busy" ->
           IF nretries > IDIVE_MAXRETRIES THEN "PROTOCOL" ELSE "RETRY"
      [] reply = "ack" -> "SUCCESS"
      [] OTHER -> "PROTOCOL"

\* One pass of the loop of divesystem_idive_transfer: the status returned,
\* or RETRY when the command is sent again.
divesystem_idive_transfer(reply, nretries) ==
    CASE reply = "cancelled" -> "CANCELLED"
      [] reply \in {"write_io", "read_io"} -> "IO"
      [] reply \in {"write_timeout", "read_timeout"} -> "TIMEOUT"
      [] reply = "nak_busy" ->
           IF nretries >= IDIVE_MAXRETRIES THEN "PROTOCOL" ELSE "RETRY"
      [] reply = "ack" -> "SUCCESS"
      [] OTHER -> "PROTOCOL"

\* A comparison that never finds the stored fingerprint.
idive_fingerprint_ignored(header, fingerprint) == FALSE

\* memcmp (header + 7, device->fingerprint, 4) == 0
idive_fingerprint_match(header, fingerprint) == header.fp = fingerprint

\* A test of the callback that disregards what it returned.
idive_callback_ignored(cb, result) == FALSE

\* callback && !callback (...): the callback asks to stop.
idive_callback_stops(cb, result) == cb /\ ~result

\* The command of the transfer at the position of d.
idive_command(d) ==
    CASE d.pc = "id" -> <<"ID", 0>>
      [] d.pc = "range" -> <<"RANGE", 0>>
      [] d.pc = "header" -> <<"HEADER", (d.last - d.i) % 65536>>
      [] d.pc = "sample" -> <<"SAMPLE", (d.j + 1) % 65536>>

\* return status, after dc_buffer_free when free.
idive_return(d, status, free) ==
    [d EXCEPT !.pc = "returned", !.status = status,
              !.frees = IF free THEN @ + 1 ELSE @]

\* The head of the loop over the dives, with i dives done.
idive_next_dive(d, i) ==
    IF i < d.last - d.first + 1
    THEN [d EXCEPT !.pc = "header", !.i = i, !.j = 0, !.nretries = 0]
    ELSE idive_return([d EXCEPT !.i = i], "SUCCESS", TRUE)

\* The dive is complete: the callback is next, if there is one.
idive_deliver(d) ==
    IF d.cb THEN [d EXCEPT !.pc = "callback"] ELSE idive_next_dive(d, d.i + 1)

\* The header of dive number n as the device answers it.
idive_header(d, n) ==
    IF n \in DOMAIN d.dives THEN d.dives[n] ELSE [fp |-> 0, nsamples |-> 0]

\* The code behind a transfer that returned SUCCESS.
idive_answered(d) ==
    CASE d.pc = "id" ->
           device_event_emit(
              device_event_emit([d EXCEPT !.pc = "range", !.nretries = 0],
                                <<"DEVINFO">>),
              <<"VENDOR">>)
      [] d.pc = "range" ->
           IF d.first > d.last THEN idive_return(d, "DATAFORMAT", FALSE)
           ELSE emit_progress(
                   [d EXCEPT !.pc = "alloc",
                             !.progress.maximum =
                                (d.last - d.first + 1) * NSTEPS])
      [] d.pc = "header" ->
           LET header == idive_header(d, d.last - d.i)
           IN IF idive_fingerprint_match(header, d.fingerprint)
              THEN idive_return(d, "SUCCESS", TRUE)
              ELSE
                LET stepped(e) ==
                      IF header.nsamples > 0
                      THEN [e EXCEPT !.pc = "sample", !.j = 0, !.nretries = 0,
                                     !.nsamples = header.nsamples,
                                     !.size = IDIVE_SZ_HEADER]
                      ELSE idive_deliver([e EXCEPT !.nsamples = 0,
                                                   !.size = IDIVE_SZ_HEADER])
                IN stepped(emit_progress(
                      [d EXCEPT !.progress.current =
                          d.i * NSTEPS + STEP(1, header.nsamples + 1)]))
      [] d.pc = "sample" ->
           LET stepped(e) ==
                 IF d.j + 1 < d.nsamples
                 THEN [e EXCEPT !.j = @ + 1, !.nretries = 0,
                                !.size = @ + IDIVE_SZ_SAMPLE]
                 ELSE idive_deliver([e EXCEPT !.j = @ + 1,
                                              !.size = @ + IDIVE_SZ_SAMPLE])
           IN stepped(emit_progress(
                 [d EXCEPT !.progress.current =
                     d.i * NSTEPS + STEP(d.j + 2, d.nsamples + 1)]))

\* The code of foreach before its first transfer: progress notifications
\* are enabled.
idive_enter(d) ==
    IF d.pc = "id" /\ d.attempts = 0 THEN emit_progress(d) ELSE d

\* The contents of an iDive: the range of its dive numbers and, per dive,
\* the fingerprint and the sample count of its header.
IdiveFingerprints == {0, 5}

\* sizeof (device->fingerprint)
IDIVE_SZ_FINGERPRINT == 4

\* divesystem_idive_device_set_fingerprint: the device after the call, which
\* returns INVALIDARGS and changes nothing for a size that is neither 0 nor
\* the size of the fingerprint.  fpsize is the size of the last call that
\* succeeded, 0 when there was none.
divesystem_idive_device_set_fingerprint(d, fingerprint, size) ==
    IF size # 0 /\ size # IDIVE_SZ_FINGERPRINT THEN d
    ELSE [d EXCEPT !.fingerprint = IF size # 0 THEN fingerprint ELSE 0,
                   !.fpsize = size]

IdiveContents ==
    UNION {[(3 - n + 1)..3 -> [fp : {0, 5, 7}, nsamples : 0..MaxDiveSamples]] :
              n \in 0..MaxDives}

IdiveDevice(dives, first, last, fingerprint, cb) ==
    [kind |-> "idive", pc |-> "id", status |-> "none",
     fingerprint |-> fingerprint,
     fpsize |-> IF fingerprint = 0 THEN 0 ELSE IDIVE_SZ_FINGERPRINT, cb |-> cb,
     progress |-> EVENT_PROGRESS_INITIALIZER, events |-> <<>>,
     allocs |-> 0, frees |-> 0, dives |-> dives, first |-> first,
     last |-> last, i |-> 0, j |-> 0, nsamples |-> 0, size |-> 0,
     nretries |-> 0, attempts |-> 0, reply |-> "none", slept |-> 0]

IdiveInit ==
    \E fingerprint \in IdiveFingerprints, cb \in BOOLEAN :
       \/ \E dives \in IdiveContents :
             dev = IdiveDevice(dives, 3 - Cardinality(DOMAIN dives) + 1, 3,
                               fingerprint, cb)
       \/ dev = IdiveDevice(<<>>, 3, 2, fingerprint, cb)

\* One pass of the loop of a transfer, and the code up to the next transfer,
\* the callback or the return.
IdiveTransfer(reply) ==
    /\ dev.kind = "idive"
    /\ dev.pc \in {"id", "range", "header", "sample"}
    /\ LET sent(d) ==
             LET transferred(rc) ==
                   CASE rc = "RETRY" ->
                          [d EXCEPT !.nretries = @ + 1, !.slept = @ + 100]
                     [] rc = "SUCCESS" ->
                          idive_answered(
                             [d EXCEPT !.events =
                                 Append(@, <<"ANS">> \o idive_command(d))])
                     [] OTHER -> idive_return(d, rc, FALSE)
             IN transferred(divesystem_idive_transfer(reply, d.nretries))
       IN dev' = sent([idive_enter(dev) EXCEPT
                         !.attempts = dev.nretries + 1,
                         !.slept = IF dev.nretries = 0 THEN 0 ELSE @,
                         !.reply = reply,
                         !.events =
                            IF dev.nretries = 0 /\ reply # "cancelled"
                            THEN Append(@, <<"REQ">> \o idive_command(dev))
                            ELSE @])
    /\ UNCHANGED pvars

\* dc_buffer_new (0), which may fail.
IdiveAlloc(ok) ==
    /\ dev.kind = "idive"
    /\ dev.pc = "alloc"
    /\ dev' = IF ok THEN idive_next_dive([dev EXCEPT !.allocs = @ + 1], 0)
              ELSE idive_return(dev, "NOMEMORY", FALSE)
    /\ UNCHANGED pvars

\* The callback is called with the dive and returns result.
IdiveCallback(result) ==
    /\ dev.kind = "idive"
    /\ dev.pc = "callback"
    /\ LET called(d) ==
             IF idive_callback_stops(d.cb, result)
             THEN idive_return(d, "SUCCESS", TRUE)
             ELSE idive_next_dive(d, d.i + 1)
       IN dev' = called([dev EXCEPT !.events =
                            Append(@, <<"CALL", dev.last - dev.i,
                                      idive_header(dev, dev.last - dev.i).fp,
                                      result>>)])
    /\ UNCHANGED pvars

(***************************************************************************)
(* Suunto Common2.  The memory of the device is a function from addresses  *)
(* to bytes; the dive buffer (data) is a sequence of bytes, its content    *)
(* after malloc being whatever byte g the heap held.                       *)
(***************************************************************************)
COMMON2_MAXRETRIES == 2

SZ_PACKET == 120

SZ_MINIMUM == 8

\* sizeof (device->fingerprint)
COMMON2_SZ_FINGERPRINT == 7

\* The layout of the device: the address of the serial number, the offset
\* of the fingerprint in a dive and the bounds of the profile ring buffer.
Common2Layout ==
    [serial |-> 35, fingerprint |-> 0, rb_profile_begin |-> 410,
     rb_profile_end |-> 570]

\* The distance from a to b in the ring [begin, end); mode decides between
\* an empty and a full ring when a = b.
ringbuffer_distance(a, b, mode, begin, end) ==
    IF a < b THEN (b - a) % (end - begin)
    ELSE IF a > b THEN (end - begin) - ((a - b) % (end - begin))
    ELSE IF mode THEN end - begin ELSE 0

RB_PROFILE_DISTANCE(l, a, b, mode) ==
    ringbuffer_distance(a, b, mode, l.rb_profile_begin, l.rb_profile_end)

\* What the packet function of the back end may return for one command.
Common2Replies == {"ok", "timeout", "protocol", "io", "cancelled"}

\* A transfer that also retries after an input/output error.
suunto_common2_transfer_stubborn(reply, nretries) ==
    CASE reply = "ok" -> "SUCCESS"
      [] reply = "cancelled" -> "CANCELLED"
      [] reply = "io" ->
           IF nretries >= COMMON2_MAXRETRIES THEN "IO" ELSE "RETRY"
      [] reply = "timeout" ->
           IF nretries >= COMMON2_MAXRETRIES THEN "TIMEOUT" ELSE "RETRY"
      [] reply = "protocol" ->
           IF nretries >= COMMON2_MAXRETRIES THEN "PROTOCOL" ELSE "RETRY"

\* One pass of the loop of suunto_common2_transfer: the status returned, or
\* RETRY when the command is sent again.
suunto_common2_transfer(reply, nretries) ==
    CASE reply = "ok" -> "SUCCESS"
      [] reply = "io" -> "IO"
      [] reply = "cancelled" -> "CANCELLED"
      [] reply = "timeout" ->
           IF nretries >= COMMON2_MAXRETRIES THEN "TIMEOUT" ELSE "RETRY"
      [] reply = "protocol" ->
           IF nretries >= COMMON2_MAXRETRIES THEN "PROTOCOL" ELSE "RETRY"

\* The byte of the device memory at an address.
MemRd(mem, a) == IF a \in DOMAIN mem THEN mem[a] ELSE 0

\* The answer to suunto_common2_device_read (address, size), size being at
\* most SZ_PACKET.
suunto_common2_device_read(mem, address, size) ==
    [k \in 1..size |-> MemRd(mem, address + k - 1)]

\* A comparison that never finds the stored fingerprint.
common2_fingerprint_ignored(slice, fingerprint) == FALSE

\* memcmp (p + fp_offset, device->fingerprint, sizeof (device->fingerprint))
common2_fingerprint_match(slice, fingerprint) == slice = fingerprint

\* free (data) when free; return status.
common2_return(d, status, free) ==
    [d EXCEPT !.pc = "returned", !.status = status,
              !.frees = IF free THEN @ + 1 ELSE @]

\* A destination that leaves the padding behind the package.
common2_destination_forward(offset, extra) == offset

\* data + offset - extra: where the answer to a padded read is stored.
common2_destination(offset, extra) == offset - extra

\* A test that takes every sequence of dives for a continuous one.
common2_continuous_always(next, previous, current) == TRUE

\* !(next != previous && next != current): the profiles are continuous.
common2_continuous(next, previous, current) ==
    ~(next # previous /\ next # current)

\* A test that takes every dive for a complete one.
common2_complete_always(next, current) == TRUE

\* if (next != current): the dive is complete.
common2_complete(next, current) == next # current

RECURSIVE common2_dive(_)
RECURSIVE common2_package(_)
RECURSIVE common2_profile(_)

\* The head of the loop over the dives: while (remaining).
common2_dive(d) ==
    IF d.remaining = 0 THEN common2_return(d, d.delayed, TRUE)
    ELSE
      LET sized(size) ==
            IF size < 4 \/ size > d.remaining
            THEN common2_return(d, "DATAFORMAT", TRUE)
            ELSE common2_package([d EXCEPT !.size = size,
                                           !.nbytes = d.available])
      IN sized(RB_PROFILE_DISTANCE(Common2Layout, d.current, d.previous, TRUE))

\* The head of the loop over the packages of a dive: while (nbytes < size).
common2_package(d) ==
    IF d.nbytes < d.size
    THEN
      LET begin == Common2Layout.rb_profile_begin
          address == IF d.address = begin THEN Common2Layout.rb_profile_end
                     ELSE d.address
          len1 == IF begin + SZ_PACKET > address THEN address - begin
                  ELSE SZ_PACKET
          len == IF d.nbytes + len1 > d.remaining THEN d.remaining - d.nbytes
                 ELSE len1
      IN [d EXCEPT !.pc = "read", !.offset = @ - len,
                   !.address = address - len, !.len = len,
                   !.extra = IF len < SZ_MINIMUM THEN SZ_MINIMUM - len ELSE 0,
                   !.nretries = 0]
    ELSE common2_profile(d)

\* The dive is in the buffer: its pointers are checked, its fingerprint is
\* compared and it is handed to the callback.
common2_profile(d) ==
    LET l == Common2Layout
        available == d.nbytes - d.size
        p == d.offset + available
        prev == array_uint16_le(d.data, p, d.g)
        next == array_uint16_le(d.data, p + 2, d.g)
        slice == [k \in 1..COMMON2_SZ_FINGERPRINT |->
                     Rd(d.data, p + l.fingerprint + 4 + k - 1, d.g)]
        e == [d EXCEPT !.remaining = @ - d.size, !.available = available,
                       !.p = p, !.prev = prev,
                       !.events = Append(@, <<"DIVE", d.current, d.size,
                                              prev, next>>)]
    IN IF prev < l.rb_profile_begin \/ prev >= l.rb_profile_end
            \/ next < l.rb_profile_begin \/ next >= l.rb_profile_end
       THEN common2_return(e, "DATAFORMAT", TRUE)
       ELSE IF ~common2_continuous(next, d.previous, d.current)
       THEN common2_return(e, "DATAFORMAT", TRUE)
       ELSE IF common2_complete(next, d.current)
       THEN IF common2_fingerprint_match(slice, d.fingerprint)
            THEN common2_return(e, "SUCCESS", TRUE)
            ELSE IF d.cb THEN [e EXCEPT !.pc = "callback"]
            ELSE common2_dive([e EXCEPT !.previous = d.current,
                                        !.current = prev])
       ELSE common2_dive([e EXCEPT !.delayed = "DATAFORMAT",
                                   !.previous = d.current, !.current = prev])

\* The code behind a read that returned SUCCESS with the bytes answer.
common2_answered(d, answer, ok, g) ==
    CASE d.pc = "serial" ->
           device_event_emit(
              emit_progress([d EXCEPT !.pc = "header", !.nretries = 0,
                                      !.progress.current = @ + SZ_MINIMUM]),
              <<"DEVINFO">>)
      [] d.pc = "header" ->
           LET l == Common2Layout
               last == array_uint16_le(answer, 0, 0)
               count == array_uint16_le(answer, 2, 0)
               end == array_uint16_le(answer, 4, 0)
               begin == array_uint16_le(answer, 6, 0)
               remaining == RB_PROFILE_DISTANCE(l, begin, end, count # 0)
           IN IF last < l.rb_profile_begin \/ last >= l.rb_profile_end
                   \/ end < l.rb_profile_begin \/ end >= l.rb_profile_end
                   \/ begin < l.rb_profile_begin \/ begin >= l.rb_profile_end
              THEN common2_return(d, "DATAFORMAT", FALSE)
              ELSE IF ~ok THEN common2_return(d, "NOMEMORY", FALSE)
              ELSE common2_dive(emit_progress(
                     [d EXCEPT !.allocs = @ + 1, !.g = g,
                               !.progress =
                                  [current |-> d.progress.current + 8,
                                   maximum |-> d.progress.maximum
                                      - ((l.rb_profile_end - l.rb_profile_begin)
                                            - remaining)],
                               !.data = Fill(l.rb_profile_end
                                               - l.rb_profile_begin
                                               + SZ_MINIMUM, g),
                               !.remaining = remaining, !.available = 0,
                               !.current = last, !.previous = end,
                               !.address = end,
                               !.offset = remaining + SZ_MINIMUM]))
      [] d.pc = "read" ->
           common2_package(emit_progress(
              [d EXCEPT !.data = Patch(@, common2_destination(d.offset,
                                                              d.extra),
                                       answer),
                        !.progress.current = @ + d.len,
                        !.nbytes = @ + d.len]))

\* The read that the call is about to make: its address and its size.
common2_command(d) ==
    CASE d.pc = "serial" -> <<Common2Layout.serial, SZ_MINIMUM>>
      [] d.pc = "header" -> <<400, 8>>
      [] d.pc = "read" -> <<d.address - d.extra, d.len + d.extra>>

\* An entry that emits nothing.
common2_enter_silent(d) == d

\* The code of foreach before its first read: progress notifications are
\* enabled and the vendor event is emitted.
common2_enter(d) ==
    IF d.pc = "serial" /\ d.attempts = 0
    THEN device_event_emit(
            emit_progress(
               [d EXCEPT !.progress.maximum =
                   Common2Layout.rb_profile_end - Common2Layout.rb_profile_begin
                      + 8 + SZ_MINIMUM]),
            <<"VENDOR">>)
    ELSE d

\* callback && !callback (...): the callback asks to stop.
common2_callback_stops(cb, result) == cb /\ ~result

\* The fingerprint of the dive at p in the buffer, as the callback gets it.
common2_slice(d) ==
    [k \in 1..COMMON2_SZ_FINGERPRINT |->
        Rd(d.data, d.p + Common2Layout.fingerprint + 4 + k - 1, d.g)]

\* The address n bytes behind a in the ring, n being less than its size.
Common2Wrap(a) ==
    IF a >= Common2Layout.rb_profile_end
    THEN a - (Common2Layout.rb_profile_end - Common2Layout.rb_profile_begin)
    ELSE a

\* The memory with the bytes stored from address a of the ring on, around
\* its end.
Common2Store(mem, a, bytes) ==
    LET l == Common2Layout
        k(x) == IF x >= a THEN x - a
                ELSE x - a + (l.rb_profile_end - l.rb_profile_begin)
    IN [x \in DOMAIN mem |->
          IF x >= l.rb_profile_begin /\ x < l.rb_profile_end
                /\ k(x) < Len(bytes)
          THEN bytes[k(x) + 1] ELSE mem[x]]

\* The ring with the dives of the payloads stored from address a on, oldest
\* first, each behind the pointers to the dive before and the dive after.
RECURSIVE Common2Dives(_, _, _, _)
Common2Dives(mem, a, prev, payloads) ==
    IF payloads = <<>> THEN [mem |-> mem, last |-> prev, end |-> a]
    ELSE Common2Dives(
            Common2Store(mem, a,
               LE16(prev) \o LE16(Common2Wrap(a + 4 + Len(Head(payloads))))
                  \o Head(payloads)),
            Common2Wrap(a + 4 + Len(Head(payloads))), a, Tail(payloads))

\* A memory: the header {last, count, end, begin} at 0x0190 and the ring.
Common2Memory(begin, payloads) ==
    LET filled(r) ==
          [a \in 400..(Common2Layout.rb_profile_end - 1) |->
              IF a < 408
              THEN (LE16(r.last) \o LE16(Len(payloads)) \o LE16(r.end)
                       \o LE16(begin))[a - 399]
              ELSE r.mem[a]]
    IN filled(Common2Dives([a \in 400..(Common2Layout.rb_profile_end - 1) |-> 0],
                           begin, begin, payloads))

\* The address of the newest dive of a memory.
Common2Last(mem) == mem[400] + 256 * mem[401]

\* Damaged memories: the newest dive incomplete (its next pointer names the
\* dive itself), out of sequence, or with a pointer outside the ring; a
\* header pointer outside the ring; a ring holding less than the dive.
Common2Damaged(mem) ==
    {Common2Store(mem, Common2Wrap(Common2Last(mem) + 2),
                  LE16(Common2Last(mem))),
     Common2Store(mem, Common2Wrap(Common2Last(mem) + 2),
                  LE16(Common2Layout.rb_profile_begin + 1)),
     Common2Store(mem, Common2Last(mem), LE16(0)),
     [mem EXCEPT ![400] = 0, ![401] = 0],
     [mem EXCEPT ![406] = LE16(Common2Wrap(Common2Last(mem) + 4))[1],
                 ![407] = LE16(Common2Wrap(Common2Last(mem) + 4))[2]]}

Common2Payloads ==
    {Fill(COMMON2_SZ_FINGERPRINT, 5), Fill(COMMON2_SZ_FINGERPRINT, 7) \o <<1>>,
     Zeros(COMMON2_SZ_FINGERPRINT),
     Fill(COMMON2_SZ_FINGERPRINT, 9) \o Zeros(SZ_PACKET - 6)}

\* The bytes that the dives of the payloads take in the ring.
RECURSIVE Common2Size(_)
Common2Size(payloads) ==
    IF payloads = <<>> THEN 0
    ELSE 4 + Len(Head(payloads)) + Common2Size(Tail(payloads))

Common2Fingerprints ==
    {Zeros(COMMON2_SZ_FINGERPRINT), Fill(COMMON2_SZ_FINGERPRINT, 5)}

\* Memories whose newest dive is shorter than the pointers and a
\* fingerprint: behind a dive of 11 bytes, and in a ring that is full.
Common2Short ==
    {Common2Memory(410, <<Fill(COMMON2_SZ_FINGERPRINT, 5), <<3>>>>),
     Common2Memory(410, <<Zeros(Common2Layout.rb_profile_end
                                  - Common2Layout.rb_profile_begin - 8), <<>>>>)}

Common2Memories ==
    LET sound == {Common2Memory(b, ps) :
                     b \in {410, 430},
                     ps \in {x \in SeqsUpTo(Common2Payloads, MaxDives) :
                               Common2Size(x) < Common2Layout.rb_profile_end
                                                 - Common2Layout.rb_profile_begin}}
    IN sound \cup UNION {Common2Damaged(m) : m \in {x \in sound : x[402] > 0}}
             \cup Common2Short

\* suunto_common2_device_set_fingerprint: the device after the call.
suunto_common2_device_set_fingerprint(d, fingerprint, size) ==
    IF size # 0 /\ size # COMMON2_SZ_FINGERPRINT THEN d
    ELSE [d EXCEPT !.fingerprint = IF size # 0 THEN fingerprint
                                   ELSE Zeros(COMMON2_SZ_FINGERPRINT),
                   !.fpsize = size]

Common2Device(mem, fingerprint, cb) ==
    [kind |-> "common2", pc |-> "serial", status |-> "none",
     delayed |-> "SUCCESS", fingerprint |-> fingerprint,
     fpsize |-> IF fingerprint = Zeros(COMMON2_SZ_FINGERPRINT) THEN 0
                ELSE COMMON2_SZ_FINGERPRINT,
     cb |-> cb,
     progress |-> EVENT_PROGRESS_INITIALIZER, events |-> <<>>, allocs |-> 0, frees |-> 0, mem |-> mem, data |-> <<>>,
     g |-> 0, remaining |-> 0, available |-> 0, current |-> 0,
     previous |-> 0, address |-> 0, offset |-> 0, size |-> 0, nbytes |-> 0,
     len |-> 0, extra |-> 0, p |-> 0, prev |-> 0, nretries |-> 0,
     attempts |-> 0, reply |-> "none"]

Common2Init ==
    \E mem \in Common2Memories, fingerprint \in Common2Fingerprints,
       cb \in BOOLEAN : dev = Common2Device(mem, fingerprint, cb)

\* One pass of the loop of a transfer, and the code up to the next read, the
\* callback or the return.  ok: malloc succeeds; g: what the heap holds.
Common2Read(reply, ok, g) ==
    /\ dev.kind = "common2"
    /\ dev.pc \in {"serial", "header", "read"}
    /\ (dev.pc = "header" /\ reply = "ok") \/ (ok /\ g = 0)
    /\ LET sent(d) ==
             LET transferred(rc) ==
                   CASE rc = "RETRY" -> [d EXCEPT !.nretries = @ + 1]
                     [] rc = "SUCCESS" ->
                          common2_answered(d,
                             suunto_common2_device_read(d.mem,
                                common2_command(d)[1], common2_command(d)[2]),
                             ok, g)
                     [] OTHER -> common2_return(d, rc, d.pc = "read")
             IN transferred(suunto_common2_transfer(reply, d.nretries))
       IN dev' = sent([common2_enter(dev) EXCEPT
                         !.attempts = dev.nretries + 1,
                         !.reply = reply,
                         !.events =
                            IF dev.nretries = 0 /\ reply # "cancelled"
                            THEN Append(@, <<"READ">> \o common2_command(dev))
                            ELSE @])
    /\ UNCHANGED pvars

\* The callback is called with the dive and returns result.
Common2Callback(result) ==
    /\ dev.kind = "common2"
    /\ dev.pc = "callback"
    /\ LET called(d) ==
             IF common2_callback_stops(d.cb, result)
             THEN common2_return(d, "SUCCESS", TRUE)
             ELSE common2_dive([d EXCEPT !.previous = d.current,
                                         !.current = d.prev])
       IN dev' = called([dev EXCEPT !.events =
                            Append(@, <<"CALL", dev.current,
                                        common2_slice(dev), result>>)])
    /\ UNCHANGED pvars

\* The sizes with which set_fingerprint is called: 0, a size that fits
\* neither device, and the sizes of the two fingerprints.
FingerprintSizes == {0, 3, IDIVE_SZ_FINGERPRINT, COMMON2_SZ_FINGERPRINT}

\* set_fingerprint, called before foreach.
SetFingerprint(size) ==
    /\ dev.pc \in {"id", "serial"}
    /\ dev.attempts = 0
    /\ \/ /\ dev.kind = "idive"
          /\ \E fingerprint \in IdiveFingerprints :
                dev' = divesystem_idive_device_set_fingerprint(
                          dev, fingerprint, size)
       \/ /\ dev.kind = "common2"
          /\ \E fingerprint \in Common2Fingerprints :
                dev' = suunto_common2_device_set_fingerprint(
                          dev, fingerprint, size)
    /\ UNCHANGED pvars

DeviceInit ==
    /\ family = "idive"
    /\ model = Params("-", 0, 0)
    /\ data = <<>>
    /\ installed = FALSE
    /\ primed = FALSE
    /\ cache = dc_parser_create("idive")
    /\ pc = "idle"
    /\ ret = NoRet
    /\ (IdiveInit \/ Common2Init)

DeviceNext ==
    \/ \E reply \in IdiveReplies : IdiveTransfer(reply)
    \/ \E ok \in BOOLEAN : IdiveAlloc(ok)
    \/ \E result \in BOOLEAN : IdiveCallback(result)
    \/ \E reply \in Common2Replies, ok \in BOOLEAN, g \in Garbage :
          Common2Read(reply, ok, g)
    \/ \E result \in BOOLEAN : Common2Callback(result)
    \/ \E size \in FingerprintSizes : SetFingerprint(size)

DeviceSpec == DeviceInit /\ [][DeviceNext]_vars

(***************************************************************************)
(* Properties of the device enumeration.                                   *)
(***************************************************************************)
\* The calls of the callback among the events, in order.
Calls(events) == SelectSeq(events, LAMBDA e : e[1] = "CALL")

\* An iDive delivers its dives from the last number downwards, none of them
\* with the stored fingerprint; the answer to a header request that holds
\* the stored fingerprint is the last event of a call that returned SUCCESS.
IdiveNewestFirst ==
    /\ \A k \in 1..Len(Calls(dev.events)) :
          /\ Calls(dev.events)[k][2] = dev.last - (k - 1)
          /\ Calls(dev.events)[k][3] # dev.fingerprint
    /\ \A i \in 1..Len(dev.events) :
          (/\ dev.events[i][1] = "ANS"
           /\ dev.events[i][2] = "HEADER"
           /\ idive_header(dev, dev.events[i][3]).fp = dev.fingerprint)
              => (/\ i = Len(dev.events)
                  /\ dev.pc = "returned"
                  /\ dev.status = "SUCCESS")

\* The 16-bit word of the ring at address a.
Common2Word(mem, a) ==
    mem[Common2Wrap(a)] + 256 * mem[Common2Wrap(a + 1)]

\* The dives of a memory as its pointers chain them, newest first, up to the
\* first dive that is out of sequence.  ahead is the number of bytes from
\* the previous dive to the end of the profile; the bytes of a fingerprint
\* slice that lie behind the end of the profile are not bytes of the memory
\* but what the buffer holds there (g).
RECURSIVE Common2Chain(_, _, _, _, _, _)
Common2Chain(mem, current, previous, remaining, ahead, g) ==
    LET l == Common2Layout
        size == RB_PROFILE_DISTANCE(l, current, previous, TRUE)
        prev == Common2Word(mem, current)
        next == Common2Word(mem, current + 2)
    IN IF remaining <= 0 \/ size < 4 \/ size > remaining
            \/ prev < l.rb_profile_begin \/ prev >= l.rb_profile_end
            \/ (next # previous /\ next # current)
       THEN <<>>
       ELSE <<[addr |-> current, complete |-> next # current,
               fp |-> [k \in 1..COMMON2_SZ_FINGERPRINT |->
                          IF l.fingerprint + 4 + k - 1 < ahead + size
                          THEN mem[Common2Wrap(current + l.fingerprint + 4
                                                 + k - 1)]
                          ELSE g]]>>
               \o Common2Chain(mem, prev, current, remaining - size,
                               ahead + size, g)

\* The addresses of the dives to deliver: the complete dives of the chain
\* that are newer than the first one with the stored fingerprint.
RECURSIVE Common2Deliverable(_, _)
Common2Deliverable(chain, fingerprint) ==
    IF chain = <<>> THEN <<>>
    ELSE IF ~Head(chain).complete
    THEN Common2Deliverable(Tail(chain), fingerprint)
    ELSE IF Head(chain).fp = fingerprint THEN <<>>
    ELSE <<Head(chain).addr>> \o Common2Deliverable(Tail(chain), fingerprint)

Common2Expected(mem, fingerprint, g) ==
    LET l == Common2Layout
        inside(a) == a >= l.rb_profile_begin /\ a < l.rb_profile_end
        last == mem[400] + 256 * mem[401]
        count == mem[402] + 256 * mem[403]
        end == mem[404] + 256 * mem[405]
        begin == mem[406] + 256 * mem[407]
    IN IF inside(last) /\ inside(end) /\ inside(begin)
       THEN Common2Deliverable(
               Common2Chain(mem, last, end,
                            RB_PROFILE_DISTANCE(l, begin, end, count # 0),
                            0, g),
               fingerprint)
       ELSE <<>>

\* A Common2 device delivers a prefix of the dives to deliver, in their
\* order, and all of them when it returns SUCCESS without being stopped.
Common2NewestFirst ==
    LET prefix(calls, expected) ==
          /\ Len(calls) <= Len(expected)
          /\ \A k \in 1..Len(calls) :
                /\ calls[k][2] = expected[k]
                /\ calls[k][3] # dev.fingerprint
          /\ (/\ dev.pc = "returned"
              /\ dev.status = "SUCCESS"
              /\ dev.cb
              /\ \A k \in 1..Len(calls) : calls[k][4])
                => Len(calls) = Len(expected)
    IN prefix(Calls(dev.events), Common2Expected(dev.mem, dev.fingerprint, dev.g))

C9_CallbackStops ==
    dev.kind \in {"idive", "common2"} =>
        \A i \in 1..Len(dev.events) :
            (dev.events[i][1] = "CALL" /\ ~dev.events[i][4])
                => (/\ i = Len(dev.events)
                    /\ dev.pc = "returned"
                    /\ dev.status = "SUCCESS")

\* A Common2 call stopped by the callback at its second dive.
C9_Witness ==
    /\ dev.kind = "common2"
    /\ dev.pc = "returned"
    /\ dev.status = "SUCCESS"
    /\ Len(Calls(dev.events)) = 2
    /\ Calls(dev.events)[1][4]
    /\ ~Calls(dev.events)[2][4]
    /\ dev.events[Len(dev.events)][1] = "CALL"

\* C10: a foreach that returns after it allocated its dive buffer has
\* released the buffer exactly once.
C10_BufferReleasedOnce ==
    dev.kind \in {"idive", "common2"} =>
        /\ dev.frees <= dev.allocs
        /\ (dev.pc = "returned" /\ dev.allocs > 0) => dev.frees = 1

\* The retry budget of the transfer routine of a device layer.
MaxRetries(d) ==
    IF d.kind = "idive" THEN IDIVE_MAXRETRIES ELSE COMMON2_MAXRETRIES

\* C11: a receive timeout in divesystem_idive_transfer or in
\* suunto_common2_transfer makes the command be sent again; TIMEOUT is
\* returned only by the pass that finds the retry budget used up.
C11_TimeoutIsRetried ==
    (/\ dev.kind \in {"idive", "common2"}
     /\ dev.pc = "returned"
     /\ dev.reply \in {"read_timeout", "timeout"})
        => (dev.status = "TIMEOUT" /\ dev.attempts = MaxRetries(dev) + 1)

\* Whether the event is a dive that the loop of the Common2 foreach has
\* traversed: <<"DIVE", address, size, prev, next>>.
Common2IsDive(e) == e[1] = "DIVE"

\* The address that the dive of event i has to name as its next one: the dive
\* traversed before it, or the end of the profile for the first.
Common2Before(d, i) ==
    LET before == SelectSeq(SubSeq(d.events, 1, i - 1), Common2IsDive)
    IN IF before = <<>> THEN d.mem[404] + 256 * d.mem[405]
       ELSE before[Len(before)][2]

\* The pointers of the dive of event i are inside the ring.
Common2Pointers(d, i) ==
    /\ d.events[i][4] >= Common2Layout.rb_profile_begin
    /\ d.events[i][4] < Common2Layout.rb_profile_end
    /\ d.events[i][5] >= Common2Layout.rb_profile_begin
    /\ d.events[i][5] < Common2Layout.rb_profile_end

\* The dive of event i was skipped: no callback for it, and the traversal
\* went on to the dive that its prev pointer names.
Common2Skipped(d, i) ==
    /\ i < Len(d.events) => d.events[i + 1][1] # "CALL"
    /\ i = Len(d.events) =>
          /\ d.pc # "callback"
          /\ d.current = d.events[i][4]
          /\ d.previous = d.events[i][2]

\* The statuses of a failed transfer.
TransferErrors == {"IO", "TIMEOUT", "PROTOCOL", "CANCELLED"}

\* C12 as stated: a dive of the Common2 ring whose next pointer is not the
\* dive traversed before it is skipped, not delivered, the traversal goes
\* on with the older dives, and the status returned in the end, unless a
\* transfer failed, is DATAFORMAT.
C12_DiscontinuousSkipped ==
    dev.kind = "common2" =>
       \A i \in DOMAIN dev.events :
          (/\ Common2IsDive(dev.events[i])
           /\ Common2Pointers(dev, i)
           /\ dev.events[i][5] # Common2Before(dev, i))
              => (/\ Common2Skipped(dev, i)
                  /\ dev.pc = "returned" =>
                        dev.status \in {"DATAFORMAT"} \cup TransferErrors)

\* C12, amended: a dive whose next pointer names the dive itself is
\* skipped, not delivered, the traversal goes on with the older dives, and
\* a traversal that runs to its end returns DATAFORMAT (one that a
\* fingerprint or the callback stops returns SUCCESS); a dive whose next
\* pointer names neither the dive before it nor itself ends the call at
\* once with DATAFORMAT, the older dives never being delivered.
C12_IncompleteSkipped ==
    dev.kind = "common2" =>
       \A i \in DOMAIN dev.events :
          (/\ Common2IsDive(dev.events[i])
           /\ Common2Pointers(dev, i)
           /\ dev.events[i][5] # Common2Before(dev, i))
              => IF dev.events[i][5] = dev.events[i][2]
                 THEN /\ Common2Skipped(dev, i)
                      /\ dev.pc = "returned" =>
                            \/ dev.status \in {"DATAFORMAT"} \cup TransferErrors
                            \/ /\ dev.status = "SUCCESS"
                               /\ i < Len(dev.events)
                               /\ LET e == dev.events[Len(dev.events)]
                                  IN \/ e[1] = "CALL" /\ ~e[4]
                                     \/ /\ Common2IsDive(e)
                                        /\ common2_slice(dev) = dev.fingerprint
                      /\ (dev.pc = "returned" /\ dev.remaining = 0
                             /\ dev.events[Len(dev.events)][1] = "CALL"
                             /\ dev.events[Len(dev.events)][4])
                            => dev.status = "DATAFORMAT"
                 ELSE /\ i = Len(dev.events)
                      /\ dev.pc = "returned"
                      /\ dev.status = "DATAFORMAT"

\* A call that skipped its newest dive, delivered the older one and
\* returned DATAFORMAT in the end.
C12_Witness ==
    /\ dev.kind = "common2"
    /\ dev.pc = "returned"
    /\ dev.status = "DATAFORMAT"
    /\ dev.remaining = 0
    /\ \E i \in DOMAIN dev.events :
          /\ Common2IsDive(dev.events[i])
          /\ dev.events[i][5] = dev.events[i][2]
          /\ dev.events[i][5] # Common2Before(dev, i)
          /\ \E j \in (i + 1)..Len(dev.events) : dev.events[j][1] = "CALL"

\* What the caller of a foreach sees of it: the events emitted and the
\* callbacks made, in their order.
Seen(events) ==
    SelectSeq(events,
              LAMBDA e : e[1] \in {"PROGRESS", "DEVINFO", "VENDOR", "CALL"})

\* C13 as stated: in both layers the caller sees PROGRESS first, DEVINFO
\* before VENDOR, no callback before either of the two, and after VENDOR
\* only PROGRESS events and callbacks.
C13_ProgressDevinfoVendor ==
    dev.kind \in {"idive", "common2"} =>
       LET seen == Seen(dev.events)
       IN /\ seen # <<>> => seen[1][1] = "PROGRESS"
          /\ \A k \in DOMAIN seen :
                /\ seen[k][1] = "VENDOR" =>
                      \E j \in 1..(k - 1) : seen[j][1] = "DEVINFO"
                /\ seen[k][1] = "CALL" =>
                      /\ \E j \in 1..(k - 1) : seen[j][1] = "DEVINFO"
                      /\ \E j \in 1..(k - 1) : seen[j][1] = "VENDOR"
                /\ (\E j \in 1..(k - 1) : seen[j][1] = "VENDOR") =>
                      seen[k][1] \in {"PROGRESS", "CALL"}

\* C13, amended: the iDive foreach emits PROGRESS, DEVINFO, VENDOR; the
\* Common2 foreach emits PROGRESS, VENDOR, PROGRESS, DEVINFO; what follows
\* in either is PROGRESS events and callbacks only, so that no callback
\* precedes DEVINFO or VENDOR.
C13_EventOrderPerLayer ==
    dev.kind \in {"idive", "common2"} =>
       LET seen == Seen(dev.events)
           order == IF dev.kind = "idive"
                    THEN <<"PROGRESS", "DEVINFO", "VENDOR">>
                    ELSE <<"PROGRESS", "VENDOR", "PROGRESS", "DEVINFO">>
       IN \A k \in DOMAIN seen :
             IF k <= Len(order) THEN seen[k][1] = order[k]
             ELSE seen[k][1] \in {"PROGRESS", "CALL"}

\* A Common2 call and an iDive call alike have emitted their events and
\* then called back: here the Common2 one, returned after a callback.
C13_Witness ==
    /\ dev.kind = "common2"
    /\ dev.pc = "returned"
    /\ Len(Seen(dev.events)) > 5
    /\ Seen(dev.events)[4][1] = "DEVINFO"
    /\ \E k \in DOMAIN dev.events : dev.events[k][1] = "CALL"

\* The PROGRESS events of a call, in their order.
Progress(events) == SelectSeq(events, LAMBDA e : e[1] = "PROGRESS")

\* The index of the last event before x that answers an iDive header, or 0.
IdiveHeaderBefore(events, x) ==
    LET hs == {h \in 1..(x - 1) :
                  events[h][1] = "ANS" /\ events[h][2] = "HEADER"}
    IN IF hs = {} THEN 0 ELSE CHOOSE h \in hs : \A g \in hs : g <= h

\* iDive: the first event is the initializer, the second fixes the maximum
\* at ndives * 1000, and the event behind the k-th transfer of dive i has
\* current = i * 1000 + 1000 * k / (nsamples + 1).
IdiveProgress ==
    LET ev == dev.events
        ps == {x \in DOMAIN ev : ev[x][1] = "PROGRESS"}
        nth(x) == Cardinality({y \in ps : y <= x})
        ndives == dev.last - dev.first + 1
        number(x) == ev[IdiveHeaderBefore(ev, x)][3]
        k(x) == IF ev[x - 1][2] = "HEADER" THEN 1 ELSE ev[x - 1][3] + 1
    IN \A x \in ps :
          CASE nth(x) = 1 -> ev[x][2] = 0 /\ ev[x][3] = UINT_MAX
            [] nth(x) = 2 -> ev[x][2] = 0 /\ ev[x][3] = ndives * 1000
            [] OTHER ->
                 /\ ev[x - 1][1] = "ANS"
                 /\ ev[x - 1][2] \in {"HEADER", "SAMPLE"}
                 /\ ev[x][3] = ndives * 1000
                 /\ ev[x][2] =
                       (dev.last - number(x)) * 1000
                          + (1000 * k(x))
                               \div (idive_header(dev, number(x)).nsamples + 1)

\* Common2: every event behind a read adds to current the bytes of the
\* packet that belong to the dive data: all the bytes read, but for a read
\* padded to SZ_MINIMUM, which adds the bytes without the padding.
Common2Progress ==
    LET ev == dev.events
        ps == {x \in DOMAIN ev : ev[x][1] = "PROGRESS"}
        before(x) == CHOOSE y \in ps :
                        y < x /\ \A z \in ps : z < x => z <= y
        read(x) == CHOOSE r \in 1..(x - 1) :
                      /\ ev[r][1] = "READ"
                      /\ \A q \in (r + 1)..(x - 1) : ev[q][1] # "READ"
        growth(x) == ev[x][2] - ev[before(x)][2]
    IN \A x \in ps :
          IF \A y \in ps : y >= x THEN ev[x][2] = 0
          ELSE /\ \E r \in 1..(x - 1) : ev[r][1] = "READ"
               /\ growth(x) >= 1
               /\ growth(x) <= ev[read(x)][3]
               /\ ev[read(x)][3] > SZ_MINIMUM => growth(x) = ev[read(x)][3]

\* C14: in one foreach call the current of successive PROGRESS events
\* never decreases, and from the event that fixes the maximum on (the
\* second of an iDive call, the first of a Common2 call) current is at
\* most maximum; the iDive values are those of the formula and the Common2
\* values grow with the bytes of each packet read.
C14_ProgressMonotone ==
    dev.kind \in {"idive", "common2"} =>
       LET progress == Progress(dev.events)
       IN /\ \A k \in 1..(Len(progress) - 1) :
                progress[k][2] <= progress[k + 1][2]
          /\ \A k \in DOMAIN progress :
                /\ ULe(progress[k][2], progress[k][3])
                /\ (dev.kind = "common2" \/ k >= 2) =>
                      (progress[k][2] >= 0 /\ progress[k][2] <= progress[k][3])
          /\ IF dev.kind = "idive" THEN IdiveProgress ELSE Common2Progress

\* Two dives have been downloaded from an iDive, the older with two
\* samples: its progress went 1333, 1666, 2000 of 2000.
C14_Witness ==
    /\ dev.kind = "idive"
    /\ dev.pc = "returned"
    /\ dev.status = "SUCCESS"
    /\ \E k \in DOMAIN dev.events : dev.events[k] = <<"PROGRESS", 1333, 2000>>
    /\ \E k \in DOMAIN dev.events : dev.events[k] = <<"PROGRESS", 1666, 2000>>
    /\ dev.events[Len(dev.events)] = <<"PROGRESS", 2000, 2000>>

\* The DEPTH samples of a stream, in their order.
Depths(stream) == SelectSeq(stream, LAMBDA s : s[1] = "DEPTH")

\* The 16-bit depth fields of the samples of a Shearwater blob that are not
\* empty, in their order.
ShearwaterDepthFields(m, d) ==
    LET samplesize == IF m.petrel # 0 THEN SZ_SAMPLE_PETREL
                                      ELSE SZ_SAMPLE_PREDATOR
        footer == shearwater_footer(m, d, 0)
        n == (footer - SZ_BLOCK + samplesize - 1) \div samplesize
        offsets == [k \in 1..n |-> SZ_BLOCK + (k - 1) * samplesize]
        kept == SelectSeq(offsets,
                   LAMBDA o : ~array_isequal(d, o, samplesize, 0, 0))
    IN [k \in 1..Len(kept) |-> array_uint16_be(d, kept[k], 0)]

\* A Shearwater walk of an installed blob with the unit byte IMPERIAL has
\* returned and delivered its samples.
ShearwaterImperialWalk ==
    /\ Returned("samples_foreach")
    /\ family = "shearwater"
    /\ installed
    /\ ret.cb
    /\ ret.status = "SUCCESS"
    /\ Len(data) > 8
    /\ data[9] = IMPERIAL

\* C15 as stated: with the unit byte IMPERIAL the DEPTH sample of a sample
\* whose depth field is d is d * 0.3048 m (d * 30480 in units of 1e-5 m).
C15_ImperialDepthIsFeet ==
    ShearwaterImperialWalk =>
       LET fields == ShearwaterDepthFields(model, data)
           depths == Depths(ret.stream)
       IN /\ Len(depths) = Len(fields)
          /\ \A k \in DOMAIN fields : depths[k][2] = fields[k] * 30480

\* C15, amended: the depth field counts tenths of a foot, and the DEPTH
\* sample is d * 0.3048 / 10 m (d * 3048 in units of 1e-5 m): a field of
\* 100 gives 3.048 m.
C15_ImperialDepthIsTenthsOfFeet ==
    ShearwaterImperialWalk =>
       LET fields == ShearwaterDepthFields(model, data)
           depths == Depths(ret.stream)
       IN /\ Len(depths) = Len(fields)
          /\ \A k \in DOMAIN fields : depths[k][2] = fields[k] * 3048

\* An imperial blob whose first sample has the depth field 100 was walked:
\* the first DEPTH sample is 3.048 m.
C15_Witness ==
    /\ ShearwaterImperialWalk
    /\ Len(ShearwaterDepthFields(model, data)) > 0
    /\ ShearwaterDepthFields(model, data)[1] = 100
    /\ Depths(ret.stream)[1][2] = 304800

(***************************************************************************)
(* The clock conversion of get_datetime (Reefnet Sensus Pro and Ultra,     *)
(* Uwatec Memomouse and Smart): a parser of one of these families is given *)
(* two dives whose timestamps t1 <= t2 are drawn from ClockTimes, and      *)
(* get_datetime is called for the one and then for the other.  dev holds   *)
(* the two timestamps and the ticks computed so far.                       *)
(***************************************************************************)
ClockTimes ==
    {0, 1, Params("-", 0, 0).devtime - 1, Params("-", 0, 0).devtime,
     Params("-", 0, 0).devtime + 1, 2147483647, 0 - 1000000, 0 - 1}

ClockConfigs ==
    {cf \in Configs :
        cf[1] \in {"sensusultra", "sensuspro", "memomouse", "smart"}}

\* The offset of the timestamp in a dive of the family.
ClockOffset(f) ==
    CASE f = "sensusultra" -> 4
      [] f = "sensuspro" -> 6
      [] f = "memomouse" -> 11
      [] f = "smart" -> 8

\* A dive of the family with the timestamp t and nothing else.
ClockBlob(f, t) == Patch(Zeros(160), ClockOffset(f), LE32(t))

\* The ticks of a get_datetime result.
ClockTicks(f, value) ==
    CASE f \in {"sensusultra", "sensuspro"} -> value
      [] f = "memomouse" -> ticks_of(value)
      [] f = "smart" -> ticks_of(value[2])

ClockInit ==
    /\ \E cf \in ClockConfigs : family = cf[1] /\ model = cf[2]
    /\ data = <<>>
    /\ installed = FALSE
    /\ primed = FALSE
    /\ cache = dc_parser_create(family)
    /\ pc = "idle"
    /\ ret = NoRet
    /\ \E t1 \in ClockTimes, t2 \in ClockTimes :
          /\ ULe(t1, t2)
          /\ dev = [kind |-> "clock", times |-> <<t1, t2>>, ticks |-> <<>>]

\* set_data with the next dive, then get_datetime.
ClockGetDatetime ==
    /\ dev.kind = "clock"
    /\ Len(dev.ticks) < Len(dev.times)
    /\ LET b == ClockBlob(family, dev.times[Len(dev.ticks) + 1])
           returned(r) ==
              /\ ret' = [NoRet EXCEPT !.op = "get_datetime",
                                      !.status = r.status, !.value = r.value]
              /\ dev' = [dev EXCEPT !.ticks =
                            Append(@, ClockTicks(family, r.value[1]))]
       IN /\ data' = b
          /\ cache' = dc_parser_set_data(family, model, cache, b, 0).cache
          /\ returned(dc_parser_get_datetime(family, model, b, 0, 2009))
    /\ installed' = TRUE
    /\ primed' = (cache # dc_parser_create(family))
    /\ pc' = "done"
    /\ UNCHANGED <<family, model>>

ClockNext == ClockGetDatetime

ClockSpec == ClockInit /\ [][ClockNext]_vars

\* C16: for a fixed pair (devtime, systime) the ticks that get_datetime
\* computes are monotone non-decreasing in the timestamp t of the dive,
\* over all 32-bit values of t, those above devtime included.
C16_TicksMonotone ==
    (/\ dev.kind = "clock"
     /\ Len(dev.ticks) = 2
     /\ ULe(dev.times[1], dev.times[2]))
        => TicksLe(dev.ticks[1], dev.ticks[2])

\* The transfer of an iDive call is about to send its command again.
IdiveRetrying ==
    dev.pc \in {"id", "range", "header", "sample"} /\ dev.nretries > 0

\* The last REQ event of the log.
LastRequest(events) ==
    CHOOSE r \in DOMAIN events :
       /\ events[r][1] = "REQ"
       /\ \A q \in (r + 1)..Len(events) : events[q][1] # "REQ"

\* C17: divesystem_idive_transfer sends its command again only after a NAK
\* of length 3 with the error code BUSY, having slept 100 ms, and at most
\* MAXRETRIES = 9 times, 10 passes in all; the reply that ends in ACK and
\* has the expected length ends the transfer with SUCCESS; a wrong command
\* byte, a byte that is neither ACK nor NAK, a NAK with another error code
\* or another length, an unexpected payload length, and BUSY in the tenth
\* pass end it with PROTOCOL.
C17_IdiveTransfer ==
    dev.kind = "idive" =>
       /\ dev.attempts <= IDIVE_MAXRETRIES + 1
       /\ IdiveRetrying =>
             /\ dev.reply = "nak_busy"
             /\ dev.nretries = dev.attempts
             /\ dev.nretries <= IDIVE_MAXRETRIES
             /\ dev.slept = 100 * dev.nretries
       /\ (dev.attempts > 0 /\ ~IdiveRetrying) =>
             /\ dev.slept = 100 * (dev.attempts - 1)
             /\ dev.reply = "nak_busy" =>
                   /\ dev.pc = "returned"
                   /\ dev.status = "PROTOCOL"
                   /\ dev.attempts = IDIVE_MAXRETRIES + 1
             /\ dev.reply \in {"wrongcmd", "noack", "nak_other", "nak_long",
                                "ack_short"} =>
                   /\ dev.pc = "returned"
                   /\ dev.status = "PROTOCOL"
             /\ dev.reply = "ack" =>
                   /\ \E r \in DOMAIN dev.events : dev.events[r][1] = "REQ"
                   /\ LastRequest(dev.events) < Len(dev.events)
                   /\ dev.events[LastRequest(dev.events) + 1]
                         = <<"ANS">> \o Tail(dev.events[LastRequest(dev.events)])

\* A transfer that was answered BUSY ten times has returned PROTOCOL, after
\* nine retries and 900 ms of sleep.
C17_Witness ==
    /\ dev.kind = "idive"
    /\ dev.pc = "returned"
    /\ dev.status = "PROTOCOL"
    /\ dev.reply = "nak_busy"
    /\ dev.attempts = 10
    /\ dev.slept = 900

\* The transfer of a Common2 call is about to send its command again.
Common2Retrying ==
    dev.pc \in {"serial", "header", "read"} /\ dev.nretries > 0

\* C18: suunto_common2_transfer calls the packet routine at most 3 times,
\* again only after TIMEOUT or PROTOCOL; another error is returned at once,
\* a success ends the transfer, and after the third failure the error of
\* that attempt is returned.
C18_Common2Transfer ==
    dev.kind = "common2" =>
       /\ dev.attempts <= COMMON2_MAXRETRIES + 1
       /\ Common2Retrying =>
             /\ dev.reply \in {"timeout", "protocol"}
             /\ dev.nretries = dev.attempts
             /\ dev.nretries <= COMMON2_MAXRETRIES
       /\ (dev.attempts > 0 /\ ~Common2Retrying) =>
             /\ dev.reply = "io" => dev.pc = "returned" /\ dev.status = "IO"
             /\ dev.reply = "cancelled" =>
                   dev.pc = "returned" /\ dev.status = "CANCELLED"
             /\ dev.reply = "timeout" =>
                   /\ dev.pc = "returned"
                   /\ dev.status = "TIMEOUT"
                   /\ dev.attempts = COMMON2_MAXRETRIES + 1
             /\ dev.reply = "protocol" =>
                   /\ dev.pc = "returned"
                   /\ dev.status = "PROTOCOL"
                   /\ dev.attempts = COMMON2_MAXRETRIES + 1
             /\ dev.reply = "ok" =>
                   /\ dev.pc = "returned" => dev.status \notin TransferErrors
                   /\ \E r \in DOMAIN dev.events : dev.events[r][1] = "READ"

\* The read of a packet of a dive has failed three times, the last time
\* with a corrupted packet, and the call has returned PROTOCOL.
C18_Witness ==
    /\ dev.kind = "common2"
    /\ dev.pc = "returned"
    /\ dev.status = "PROTOCOL"
    /\ dev.reply = "protocol"
    /\ dev.attempts = 3
    /\ dev.allocs = 1

\* The sum of the sizes of the dives traversed.
RECURSIVE Common2Traversed(_)
Common2Traversed(events) ==
    IF events = <<>> THEN 0
    ELSE (IF Common2IsDive(Head(events)) THEN Head(events)[3] ELSE 0)
            + Common2Traversed(Tail(events))

\* The call has traversed the whole ring: it returned SUCCESS, no callback
\* returned false and no dive held the stored fingerprint.
Common2FullTraversal ==
    /\ dev.kind = "common2"
    /\ dev.pc = "returned"
    /\ dev.status = "SUCCESS"
    /\ dev.allocs = 1
    /\ dev.remaining = 0
    /\ \A i \in DOMAIN dev.events :
          dev.events[i][1] = "CALL" => dev.events[i][4]
    /\ ~(/\ Common2IsDive(dev.events[Len(dev.events)])
         /\ common2_slice(dev) = dev.fingerprint)

\* C19: when the Common2 foreach has traversed the whole ring, the sizes of
\* the dives traversed sum to the distance from begin to end that the
\* header gives; and a dive handed to the callback names as its next dive
\* the dive traversed before it, the first one the end of the profile.
C19_SizesSumToDistance ==
    dev.kind = "common2" =>
       /\ Common2FullTraversal =>
             Common2Traversed(dev.events)
                = RB_PROFILE_DISTANCE(Common2Layout,
                     dev.mem[406] + 256 * dev.mem[407],
                     dev.mem[404] + 256 * dev.mem[405],
                     dev.mem[402] + 256 * dev.mem[403] # 0)
       /\ \A i \in DOMAIN dev.events :
             dev.events[i][1] = "CALL" =>
                /\ i > 1
                /\ Common2IsDive(dev.events[i - 1])
                /\ dev.events[i - 1][2] = dev.events[i][2]
                /\ dev.events[i - 1][5] = Common2Before(dev, i - 1)

\* A ring of two dives, the newer one longer than a packet, has been
\* traversed and both dives were handed to the callback.
C19_Witness ==
    /\ Common2FullTraversal
    /\ Len(Calls(dev.events)) = 2
    /\ Common2Traversed(dev.events) > SZ_PACKET

\* The bytes of profile data that the header of the memory announces.
Common2Profile(d) ==
    RB_PROFILE_DISTANCE(Common2Layout, d.mem[406] + 256 * d.mem[407],
                        d.mem[404] + 256 * d.mem[405],
                        d.mem[402] + 256 * d.mem[403] # 0)

\* The ring address whose byte belongs at index x of the dive buffer: the
\* profile data end at index Common2Profile + SZ_MINIMUM with the byte
\* before the end of the profile.
Common2Address(d, x) ==
    LET l == Common2Layout
        a == (d.mem[404] + 256 * d.mem[405])
                - (Common2Profile(d) + SZ_MINIMUM - x)
    IN IF a < l.rb_profile_begin
       THEN a + (l.rb_profile_end - l.rb_profile_begin) ELSE a

\* The index of the dive buffer from which on the bytes are downloaded: a
\* package that is being read is not.
Common2Downloaded(d) ==
    IF d.pc = "read" \/ d.reply # "ok" THEN d.offset + d.len ELSE d.offset

\* C20: every read of the Common2 foreach asks for SZ_MINIMUM = 8 to
\* SZ_PACKET = 120 bytes; a package of fewer than 8 bytes is read with the
\* bytes below it, from the lower address, into the buffer below the
\* package; and the bytes downloaded so far stay what the device holds at
\* their addresses, so that no padding has overwritten them.
C20_PacketSizes ==
    dev.kind = "common2" =>
       /\ \A i \in DOMAIN dev.events :
             dev.events[i][1] = "READ" =>
                dev.events[i][3] >= SZ_MINIMUM /\ dev.events[i][3] <= SZ_PACKET
       /\ dev.pc = "read" =>
             /\ dev.len >= 1
             /\ dev.len <= SZ_PACKET
             /\ dev.extra = (IF dev.len < SZ_MINIMUM THEN SZ_MINIMUM - dev.len
                                                     ELSE 0)
             /\ common2_command(dev) = <<dev.address - dev.extra,
                                         dev.len + dev.extra>>
             /\ common2_destination(dev.offset, dev.extra) >= 0
             /\ dev.offset + dev.len <= Len(dev.data)
       /\ dev.allocs = 1 =>
             \A x \in Common2Downloaded(dev)
                        ..(Common2Profile(dev) + SZ_MINIMUM - 1) :
                dev.data[x + 1] = dev.mem[Common2Address(dev, x)]

\* A call has read a package of 120 bytes and, as its last read, a package
\* of fewer than 8 bytes with its padding, and has returned SUCCESS.
C20_Witness ==
    /\ dev.kind = "common2"
    /\ dev.pc = "returned"
    /\ dev.status = "SUCCESS"
    /\ dev.reply = "ok"
    /\ dev.extra > 0
    /\ dev.nbytes > dev.len
    /\ \E i \in DOMAIN dev.events :
          dev.events[i][1] = "READ" /\ dev.events[i][3] = SZ_PACKET

(***************************************************************************)
(* The Uwatec Smart bit stream.  A sample encoding is the bytes holding    *)
(* the type bits of its table entry, the extra data bytes of the entry     *)
(* and, for the two vendor entries, the bytes they skip.                   *)
(***************************************************************************)
\* The offset at which the sample loop starts.
SmartStart(m, c) ==
    IF c.trimix # 0 THEN 177 ELSE smart_layout(m.model).headersize

\* The table index of the sample encoded at offset o < Len(d).
SmartSampleId(m, d, o) ==
    IF m.model \in SmartGalileoModels THEN uwatec_galileo_identify(Rd(d, o, 0))
    ELSE uwatec_smart_identify(d, 0, o, 0, 0)

\* How the bytes of d from offset o on divide into sample encodings:
\* "complete" when they are whole encodings up to the last byte, "truncated"
\* when the last encoding misses type bits, data bytes or skipped bytes,
\* "invalid" when an encoding names no table entry or a vendor entry skips
\* less than one byte, "short" when d ends before o.
RECURSIVE SmartPayload(_, _, _)
SmartPayload(m, d, o) ==
    IF o > Len(d) THEN "short"
    ELSE IF o = Len(d) THEN "complete"
    ELSE
      LET table == smart_layout(m.model).samples
          id == SmartSampleId(m, d, o)
          split(e) ==
            LET fixed == (e.ntypebits + NBITS - 1) \div NBITS + e.extrabytes
                skipped == CASE e.type = "UNKNOWN1" -> 8
                             [] e.type = "UNKNOWN2" ->
                                  Rd(d, o + fixed - 1, 0) - 1
                             [] OTHER -> 0
            IN IF o + fixed > Len(d) THEN "truncated"
               ELSE IF skipped < 0 THEN "invalid"
               ELSE IF o + fixed + skipped > Len(d) THEN "truncated"
               ELSE SmartPayload(m, d, o + fixed + skipped)
      IN IF id = SMART_UNSUPPORTED THEN "truncated"
         ELSE IF ULe(Len(table), id) THEN "invalid"
         ELSE split(table[id + 1])

\* The sample walk that has just returned, made again on the cache it left.
SmartWalk ==
    uwatec_smart_parser_samples_foreach(model, cache, data, ret.cb, ret.g)

SmartWalked == Returned("samples_foreach") /\ installed /\ family = "smart"

\* C21: samples_foreach of the Uwatec Smart parser returns SUCCESS only with
\* its offset exactly at the end of the blob; a payload of complete sample
\* encodings is consumed to the last byte, a payload that ends inside an
\* encoding is rejected with DATAFORMAT, and the sample loop reads no byte
\* at an index at or behind the size of the blob.
C21_SmartConsumesPayload ==
    SmartWalked =>
        LET consumed(r, kind) ==
              /\ ret.status = "SUCCESS" => r.offset = Len(data)
              /\ (kind = "complete" /\ cache.ngasmixes = 0)
                    => ret.status = "SUCCESS"
              /\ kind = "truncated" => ret.status = "DATAFORMAT"
              /\ ~r.oob
        IN consumed(SmartWalk, SmartPayload(model, data, SmartStart(model, cache)))

\* C21 on the blobs that reach the offset at which the samples start: the
\* same four properties, and SUCCESS is returned for complete payloads only.
C21_PayloadConsumed ==
    (SmartWalked /\ Len(data) >= SmartStart(model, cache)) =>
        LET consumed(r, kind) ==
              /\ ret.status = "SUCCESS"
                    => (r.offset = Len(data) /\ kind = "complete")
              /\ (kind = "complete" /\ cache.ngasmixes = 0)
                    => ret.status = "SUCCESS"
              /\ kind = "truncated" => ret.status = "DATAFORMAT"
              /\ ~r.oob
        IN consumed(SmartWalk, SmartPayload(model, data, SmartStart(model, cache)))

\* A payload of two complete encodings consumed to the last byte, one that
\* ends inside its skipped vendor bytes, and one that ends inside its type.
C21_Complete ==
    /\ SmartWalked
    /\ Len(data) = SmartStart(model, cache) + 4
    /\ SmartPayload(model, data, SmartStart(model, cache)) = "complete"
    /\ ret.status = "SUCCESS"
    /\ SmartWalk.offset = Len(data)

C21_Truncated ==
    /\ SmartWalked
    /\ model.model = "GALILEO"
    /\ Rd(data, SmartStart(model, cache), 0) = 251
    /\ SmartPayload(model, data, SmartStart(model, cache)) = "truncated"
    /\ ret.status = "DATAFORMAT"

C21_MissingType ==
    /\ SmartWalked
    /\ model.model = "SMARTPRO"
    /\ Len(data) = SmartStart(model, cache) + 1
    /\ Rd(data, SmartStart(model, cache), 0) = 255
    /\ ret.status = "DATAFORMAT"

\* The tokens of a payload of complete encodings from offset o on: the
\* table entry of each and the value of its data bits.
RECURSIVE SmartTokens(_, _, _)
SmartTokens(m, d, o) ==
    IF o >= Len(d) THEN <<>>
    ELSE
      LET e == smart_layout(m.model).samples[SmartSampleId(m, d, o) + 1]
          n == e.ntypebits % NBITS
          o1 == o + e.ntypebits \div NBITS
          o2 == IF n > 0 THEN o1 + 1 ELSE o1
          value == smart_extra(d, 0, o2, e.extrabytes,
                               IF n > 0 /\ e.ignoretype = 0
                               THEN Rd(d, o1, 0) % Pow2(NBITS - n) ELSE 0)
          skipped == CASE e.type = "UNKNOWN1" -> 8
                       [] e.type = "UNKNOWN2" -> value - 1
                       [] OTHER -> 0
      IN <<[e |-> e, value |-> value]>>
            \o SmartTokens(m, d, o2 + e.extrabytes + skipped)

\* The number of samples that a token makes pending.
SmartCommits(t) ==
    CASE t.e.type \in {"DEPTH", "PRESSURE_DEPTH"} -> 1
      [] t.e.type = "TIME" -> t.value
      [] OTHER -> 0

\* The gas mix index after a token, gasmix being the index before it.
SmartGasmix(m, c, t, gasmix) ==
    CASE t.e.type = "PRESSURE" /\ t.e.absolute # 0 ->
           IF c.trimix # 0 THEN 0 ELSE t.e.index
      [] t.e.type = "ALARMS" /\ t.e.index = 1
            /\ m.model \notin {"MERIDIAN", "CHROMIS"} -> Bits(t.value, 4, 2)
      [] OTHER -> gasmix

\* The gas mix index current at each pending sample, in order.
RECURSIVE SmartIndexes(_, _, _, _, _)
SmartIndexes(m, c, tokens, i, gasmix) ==
    IF i > Len(tokens) THEN <<>>
    ELSE LET pending(g2) ==
               [k \in 1..SmartCommits(tokens[i]) |-> g2]
                  \o SmartIndexes(m, c, tokens, i + 1, g2)
         IN pending(SmartGasmix(m, c, tokens[i], gasmix))

\* The k-th pending sample has a gas mix to report: gas mixes are defined
\* and the index differs from the one reported last.
SmartChange(c, idx, k) ==
    c.ngasmixes # 0 /\ (k = 1 \/ idx[k] # idx[k - 1])

\* The pending samples whose gas mix index names no gas mix.
SmartInvalid(c, idx) ==
    {k \in 1..Len(idx) : SmartChange(c, idx, k) /\ idx[k] >= c.ngasmixes}

\* The number of samples committed before the walk ends.
SmartCommitted(c, idx) ==
    IF SmartInvalid(c, idx) = {} THEN Len(idx)
    ELSE (CHOOSE k \in SmartInvalid(c, idx) :
              \A j \in SmartInvalid(c, idx) : k <= j) - 1

\* The position in a stream of its k-th TIME sample.
TimePosition(stream, k) ==
    CHOOSE i \in 1..Len(stream) :
        /\ stream[i][1] = "TIME"
        /\ Cardinality({j \in 1..(i - 1) : stream[j][1] = "TIME"}) = k - 1

IsGasChange(x) == x[1] = "EVENT" /\ x[2] = "GASCHANGE"

C22_PressureDepth ==
    /\ SmartWalked
    /\ ret.cb
    /\ ret.status = "SUCCESS"
    /\ model.model = "SMARTCOM"
    /\ SubSeq(data, SmartStart(model, cache) + 1, Len(data)) = <<5, 3, 254, 2>>
    /\ Len(Times(ret.stream)) = 3

C22_Aborted ==
    /\ SmartWalked
    /\ ret.cb
    /\ ret.status = "DATAFORMAT"
    /\ cache.ngasmixes = 2
    /\ SubSeq(data, SmartStart(model, cache) + 1, Len(data)) = <<5, 240, 32, 5>>
    /\ Len(Times(ret.stream)) = 2
    /\ ret.stream[Len(ret.stream)] = <<"TIME", 4>>

(***************************************************************************)
(* The gas mixes of an iDive blob.                                         *)
(***************************************************************************)
\* The number of complete samples of an iDive blob.
IdiveSampleCount(d) ==
    IF Len(d) < IDIVE_SZ_HEADER THEN 0
    ELSE (Len(d) - IDIVE_SZ_HEADER) \div IDIVE_SZ_SAMPLE

\* The gas mix (o2, he) stored in the k-th complete sample, from 0.
IdivePair(d, k) ==
    <<Rd(d, IDIVE_SZ_HEADER + k * IDIVE_SZ_SAMPLE + 10, 0),
      Rd(d, IDIVE_SZ_HEADER + k * IDIVE_SZ_SAMPLE + 11, 0)>>

\* The distinct gas mixes of the samples, in order of first appearance.
IdivePairs(d) ==
    LET first == {k \in 0..(IdiveSampleCount(d) - 1) :
                    \A j \in 0..(k - 1) : IdivePair(d, j) # IdivePair(d, k)}
        nth(n) == CHOOSE k \in first :
                    Cardinality({j \in first : j < k}) = n - 1
    IN [n \in 1..Cardinality(first) |-> IdivePair(d, nth(n))]

\* The stored timestamps of the complete samples increase, from above 0.
IdiveIncreasing(d) ==
    \A k \in 0..(IdiveSampleCount(d) - 1) :
        ULt(IF k = 0 THEN 0 ELSE IdiveStored(d, k - 1), IdiveStored(d, k))

\* GASMIX_COUNT as get_field returns it on the cache of the current state.
IdiveGasmixCount ==
    dc_parser_get_field(family, model, cache, data, "GASMIX_COUNT", 0, TRUE,
                        ret.g)

\* C23: after a successful iDive samples_foreach the cached gas mix table
\* holds the distinct (o2, he) pairs of the samples, in order of first
\* appearance and each once, GASMIX_COUNT is their number and at most
\* NGASMIXES = 8; on a blob whose samples use a ninth distinct pair
\* samples_foreach and get_field return DATAFORMAT.
C23_IdiveGasmixTable ==
    (pc = "done" /\ installed /\ family = "idive") =>
        LET table(pairs) ==
              /\ (ret.op = "samples_foreach" /\ ret.status = "SUCCESS") =>
                    /\ cache.cached = 1
                    /\ cache.ngasmixes = Len(pairs)
                    /\ Len(pairs) <= IDIVE_NGASMIXES
                    /\ \A k \in 1..Len(pairs) :
                          <<cache.oxygen[k], cache.helium[k]>> = pairs[k]
                    /\ \A j \in 1..cache.ngasmixes, k \in 1..cache.ngasmixes :
                          (cache.oxygen[j] = cache.oxygen[k]
                             /\ cache.helium[j] = cache.helium[k]) => j = k
                    /\ Len(data) >= IDIVE_SZ_HEADER
                          => IdiveGasmixCount.status = "SUCCESS"
                    /\ IdiveGasmixCount.status = "SUCCESS"
                          => IdiveGasmixCount.value = <<Len(pairs)>>
              /\ (ret.op \in {"samples_foreach", "get_field"}
                    /\ Len(pairs) > IDIVE_NGASMIXES)
                    => ret.status = "DATAFORMAT"
        IN table(IdivePairs(data))

\* A walk over nine samples that breathe eight mixes, the first of them
\* again at the end: the table is full; and a walk over four samples
\* alternating between two mixes.
C23_Witness ==
    /\ Returned("samples_foreach")
    /\ installed
    /\ family = "idive"
    /\ ret.status = "SUCCESS"
    /\ IdiveSampleCount(data) = IDIVE_NGASMIXES + 1
    /\ cache.ngasmixes = IDIVE_NGASMIXES
    /\ cache.oxygen = [k \in 1..IDIVE_NGASMIXES |-> 20 + k]
    /\ IdiveGasmixCount.value = <<IDIVE_NGASMIXES>>

C23_Alternating ==
    /\ Returned("samples_foreach")
    /\ installed
    /\ family = "idive"
    /\ ret.status = "SUCCESS"
    /\ IdiveSampleCount(data) = 4
    /\ IdivePairs(data) = <<<<21, 0>>, <<32, 0>>>>
    /\ cache.ngasmixes = 2

\* The ninth distinct mix: samples_foreach and get_field fail.
C23_Overflow ==
    /\ pc = "done"
    /\ installed
    /\ family = "idive"
    /\ ret.op = "get_field"
    /\ ret.type = "GASMIX_COUNT"
    /\ IdiveIncreasing(data)
    /\ Len(IdivePairs(data)) = IDIVE_NGASMIXES + 1
    /\ ret.status = "DATAFORMAT"

(***************************************************************************)
(* Surface intervals of the Oceanic Atom2 parser.  A VENDOR entry of the   *)
(* stream carries the offset of the sample it was emitted for.             *)
(***************************************************************************)
\* The positions of the entries of a kind among positions a .. b of a stream.
Positions(stream, kind, a, b) == {i \in a..b : stream[i][1] = kind}

Highest(S) == CHOOSE i \in S : \A j \in S : j <= i

Lowest(S) == CHOOSE i \in S : \A j \in S : i <= j

\* The value of the last TIME sample up to position q, 0 before the first.
StreamTime(stream, q) ==
    IF Positions(stream, "TIME", 1, q) = {} THEN 0
    ELSE stream[Highest(Positions(stream, "TIME", 1, q))][2]

\* The time of the last DEPTH sample before position p, 0 if there is none.
CommittedTime(stream, p) ==
    IF Positions(stream, "DEPTH", 1, p - 1) = {} THEN 0
    ELSE StreamTime(stream, Highest(Positions(stream, "DEPTH", 1, p - 1)))

\* The last position before the VENDOR entry that follows position p.
SegmentEnd(stream, p) ==
    IF Positions(stream, "VENDOR", p + 1, Len(stream)) = {} THEN Len(stream)
    ELSE Lowest(Positions(stream, "VENDOR", p + 1, Len(stream))) - 1

\* The surface time in seconds stored in the 0xBB sample at an offset.
Atom2Surftime(d, offset) ==
    60 * bcd2dec(Rd(d, offset + 1, 0)) + bcd2dec(Rd(d, offset + 2, 0))

\* The entries of the stream emitted for surface interval samples.
Atom2SurfaceEntries(mdl, d, g, stream) ==
    {p \in Positions(stream, "VENDOR", 1, Len(stream)) :
        Rd(d, stream[p][2], 0) = 187 /\ atom2_mode(mdl, d, g) # FREEDIVE}

\* C24: a 0xBB sample with surface time s at sample interval I emits
\* s \div I DEPTH samples of depth zero, at the times t + I, t + 2I, ...
\* after the time t of the sample committed before it; consecutive TIME
\* values of the stream differ by I, and a TIME sample lies between any two
\* DEPTH samples.
C24_Atom2SurfaceSamples ==
    (Returned("samples_foreach") /\ installed /\ family = "atom2" /\ ret.cb) =>
        LET surface(stream, interval, times) ==
              /\ \A k \in 1..(Len(times) - 1) :
                    times[k + 1][2] = times[k][2] + interval
              /\ \A a \in Positions(stream, "DEPTH", 1, Len(stream)) :
                    \A b \in Positions(stream, "DEPTH", a + 1, Len(stream)) :
                       Positions(stream, "TIME", a + 1, b - 1) # {}
              /\ \A p \in Atom2SurfaceEntries(model.model, data, ret.g, stream) :
                    LET seg == Positions(stream, "DEPTH", p + 1,
                                         SegmentEnd(stream, p))
                    IN /\ Cardinality(seg)
                            = Atom2Surftime(data, stream[p][2]) \div interval
                       /\ \A q \in seg :
                             /\ stream[q] = <<"DEPTH", 0>>
                             /\ StreamTime(stream, q)
                                  = CommittedTime(stream, p)
                                      + interval
                                          * Cardinality({r \in seg : r <= q})
        IN surface(ret.stream, atom2_interval(model.model, data, ret.g),
                   Times(ret.stream))

\* The Atom2 dive of a data sample and a surface interval of 90 s at an
\* interval of 30 s: the data sample at 30 s and three samples of depth zero
\* at 60, 90 and 120 s.
C24_Witness ==
    /\ Returned("samples_foreach")
    /\ installed
    /\ family = "atom2"
    /\ model.model = "ATOM2"
    /\ ret.cb
    /\ ret.status = "SUCCESS"
    /\ atom2_interval(model.model, data, 0) = 30
    /\ Cardinality(Atom2SurfaceEntries(model.model, data, 0, ret.stream)) = 1
    /\ Times(ret.stream)
         = <<<<"TIME", 30>>, <<"TIME", 60>>, <<"TIME", 90>>, <<"TIME", 120>>>>
    /\ SubSeq(ret.stream, Len(ret.stream) - 4, Len(ret.stream))
         = <<<<"DEPTH", 0>>, <<"TIME", 90>>, <<"DEPTH", 0>>, <<"TIME", 120>>,
             <<"DEPTH", 0>>>>

\* A surface interval that follows a tank switch sample: its first sample
\* of depth zero takes the TIME sample emitted for the tank switch.
C24_AfterSwitch ==
    /\ Returned("samples_foreach")
    /\ installed
    /\ family = "atom2"
    /\ model.model = "ATOM2"
    /\ ret.cb
    /\ ret.status = "SUCCESS"
    /\ \E p \in Atom2SurfaceEntries(model.model, data, 0, ret.stream) :
          /\ p > 1
          /\ ret.stream[p - 1][1] = "VENDOR"
          /\ Rd(data, ret.stream[p - 1][2], 0) = 170
          /\ ret.stream[p + 1] = <<"DEPTH", 0>>
          /\ Atom2Surftime(data, ret.stream[p][2]) = 90

(***************************************************************************)
(* The samples of one minute in the Oceanic VT Pro parser.  A VENDOR entry *)
(* of the stream carries the offset of the sample it was emitted for and   *)
(* follows the TIME sample of that sample.                                 *)
(***************************************************************************)
\* The used sample slots of a blob that store the minute m.
VtproBlock(d, m) ==
    {o \in VtproSlots(d) : VtproUsed(d, o) /\ vtpro_timestamp(d, o, 0) = m}

\* The offsets of the samples for which the stream has an entry.
VtproEmitted(stream) ==
    {stream[p][2] : p \in Positions(stream, "VENDOR", 1, Len(stream))}

VtproWalked ==
    /\ Returned("samples_foreach")
    /\ installed
    /\ family = "vtpro"
    /\ ret.cb
    /\ Len(data) >= (7 * PAGESIZE) \div 2

\* C25: with a time-triggered interval I the VT Pro walk emits at most
\* 60 \div I samples per minute timestamp, the first ones of the minute, and
\* skips the further ones without emitting a sample; with a depth-triggered
\* interval it emits the i-th (from 0) of the c samples of minute m at
\* 60 * m + round(60 * (i + 1) / c), the last of them at 60 * (m + 1).
C25_VtproMinuteBlocks ==
    VtproWalked =>
        LET blocks(stream, interval, emitted) ==
              /\ emitted \subseteq {o \in VtproSlots(data) : VtproUsed(data, o)}
              /\ interval # 0 =>
                    \A o \in VtproSlots(data) :
                       LET block == VtproBlock(data, vtpro_timestamp(data, o, 0))
                           before == Cardinality({x \in block : x < o})
                       IN /\ Cardinality(block \cap emitted) <= 60 \div interval
                          /\ (VtproUsed(data, o) /\ before >= 60 \div interval)
                                => o \notin emitted
                          /\ (VtproUsed(data, o) /\ ret.status = "SUCCESS"
                                /\ before < 60 \div interval)
                                => o \in emitted
              /\ (interval = 0 /\ ret.status = "SUCCESS") =>
                    /\ emitted = {o \in VtproSlots(data) : VtproUsed(data, o)}
                    /\ \A p \in Positions(stream, "VENDOR", 1, Len(stream)) :
                          LET o == stream[p][2]
                              m == vtpro_timestamp(data, o, 0)
                              c == Cardinality(VtproBlock(data, m))
                              i == Cardinality({x \in VtproBlock(data, m) : x < o})
                          IN /\ stream[p - 1]
                                  = <<"TIME", 60 * m
                                        + (120 * (i + 1) + c) \div (2 * c)>>
                             /\ i = c - 1
                                  => stream[p - 1] = <<"TIME", 60 * (m + 1)>>
        IN blocks(ret.stream, vtpro_interval(data, ret.g),
                  VtproEmitted(ret.stream))

\* Depth-triggered, eight samples in minute 1: the times 68, 75, 83, 90, 98,
\* 105, 113 and 120.
C25_Witness ==
    /\ VtproWalked
    /\ ret.status = "SUCCESS"
    /\ vtpro_interval(data, 0) = 0
    /\ Cardinality(VtproBlock(data, 1)) = 8
    /\ Times(ret.stream)
         = [k \in 1..8 |->
              <<"TIME", <<68, 75, 83, 90, 98, 105, 113, 120>>[k]>>]

\* Interval 30 s, four samples in minute 1 and one in minute 2: two of
\* minute 1 are emitted, two are skipped, at 30, 60 and 90 s.
C25_Skipped ==
    /\ VtproWalked
    /\ ret.status = "SUCCESS"
    /\ vtpro_interval(data, 0) = 30
    /\ Cardinality(VtproBlock(data, 1)) = 4
    /\ Cardinality(VtproBlock(data, 1) \cap VtproEmitted(ret.stream)) = 2
    /\ Times(ret.stream) = <<<<"TIME", 30>>, <<"TIME", 60>>, <<"TIME", 90>>>>

\* Depth-triggered, three samples in minute 1 around an empty slot: the
\* times 80, 100 and 120, and 180 for the sample of minute 2.
C25_Block ==
    /\ VtproWalked
    /\ ret.status = "SUCCESS"
    /\ vtpro_interval(data, 0) = 0
    /\ Cardinality(VtproBlock(data, 1)) = 3
    /\ Times(ret.stream)
         = <<<<"TIME", 80>>, <<"TIME", 100>>, <<"TIME", 120>>, <<"TIME", 180>>>>

(***************************************************************************)
(* The type-descriptor table of the Suunto EON Steel parser: MAXTYPE       *)
(* entries, with the indices 0 .. MAXTYPE - 1.                             *)
(***************************************************************************)
\* The type id of the entry at the start of the entries of a blob.
EonSteelFirstType(d) == array_uint16_le(d, 14, 0)

\* The type id of the first data record of a blob of one entry whose text
\* length takes one byte, the record carrying a 16-bit type.
EonSteelFirstRecord(d) == array_uint16_le(d, 14 + Rd(d, 13, 0) + 1, 0)

\* C26: the EON Steel parser never writes or reads its type-descriptor
\* table outside the indices 0 .. MAXTYPE - 1: no descriptor is recorded at
\* an index of MAXTYPE or more, and no call faults on such an index.
C26_TableInBounds ==
    family = "eonsteel" =>
        /\ pc # "fault"
        /\ \A e \in cache.type_desc : e[1] < MAXTYPE
        /\ Returned("samples_foreach") => ret.status # "FAULT"

\* A descriptor recorded at index MAXTYPE, one past the end of the table.
C26_WrittenPastEnd ==
    /\ family = "eonsteel"
    /\ pc = "idle"
    /\ installed
    /\ EonSteelFirstType(data) = MAXTYPE
    /\ <<MAXTYPE, <<STR_SML \o STR_DEVICELOG \o STR_HEADER
                       \o STR_SURFACEPRESSURE>>>> \in cache.type_desc

\* A data record of type MAXTYPE dispatched through the descriptor at index
\* MAXTYPE: the surface pressure it carries is in the field cache.
C26_ReadPastEnd ==
    /\ family = "eonsteel"
    /\ pc = "idle"
    /\ installed
    /\ EonSteelFirstType(data) = MAXTYPE
    /\ EonSteelFirstRecord(data) = MAXTYPE
    /\ cache.cache.surface_pressure = 101325

\* A data record of type MAXTYPE without a descriptor: the test of the
\* descriptor at index MAXTYPE faults.
C26_ReadFault ==
    /\ family = "eonsteel"
    /\ pc = "fault"
    /\ EonSteelFirstType(data) = 257
    /\ EonSteelFirstRecord(data) = MAXTYPE

\* The last index of the table, MAXTYPE - 1, and the first refused one,
\* MAXTYPE + 1: recorded and dispatched, and neither.
C26_LastIndex ==
    /\ family = "eonsteel"
    /\ pc = "idle"
    /\ installed
    /\ \/ /\ EonSteelFirstType(data) = MAXTYPE - 1
          /\ cache.cache.surface_pressure = 101325
          /\ \E e \in cache.type_desc : e[1] = MAXTYPE - 1
       \/ /\ EonSteelFirstType(data) = MAXTYPE + 1
          /\ cache.cache.surface_pressure = 0
          /\ cache.type_desc = {}

(***************************************************************************)
(* Termination of the traversal of the Suunto EON Steel parser.            *)
(***************************************************************************)
\* The 32-bit text length of the first entry of a blob, as a signed int.
EonSteelTextLength(d) == eonsteel_int(array_uint32_le(d, 14, 0))

EonSteelLongText(d) ==
    Len(d) >= 18 /\ SubSeq(d, 5, 8) = STR_SBEM /\ Rd(d, 12, 0) = 0
        /\ Rd(d, 13, 0) = 255

\* C27: set_data and samples_foreach of the EON Steel parser return for
\* every blob, also for one with an entry whose 32-bit text length is
\* negative as a signed int.
C27_EonSteelTerminates ==
    family = "eonsteel" =>
        /\ pc # "hung"
        /\ Returned("samples_foreach") => ret.status # "HANG"

\* An entry with the text length -6: its data starts at the entry itself,
\* traverse_entry returns 0 and set_data does not return.
C27_ZeroProgress ==
    /\ family = "eonsteel"
    /\ pc = "hung"
    /\ EonSteelLongText(data)
    /\ EonSteelTextLength(data) = -6

\* Entries with other 32-bit text lengths, on which set_data returns: -7,
\* where traverse_entry returns -1; 65536, which ends the traversal behind
\* the blob; the true length, after which the time step record is decoded.
C27_Returns ==
    /\ family = "eonsteel"
    /\ pc = "idle"
    /\ installed
    /\ EonSteelLongText(data)
    /\ \/ EonSteelTextLength(data) = -7 /\ cache.cache.divetime = 0
       \/ EonSteelTextLength(data) = 65536 /\ cache.cache.divetime = 0
       \/ EonSteelTextLength(data) = Len(STR_PTH_FIELD) + 3
            /\ cache.cache.divetime = 1

(***************************************************************************)
(* The dive buffer of the Common2 foreach: an allocation of the size of    *)
(* the ring and SZ_MINIMUM bytes, filled downwards from the index          *)
(* Common2Profile + SZ_MINIMUM.                                            *)
(***************************************************************************)
\* The index behind the last byte of the buffer that foreach downloads.
Common2Top(d) == Common2Profile(d) + SZ_MINIMUM

\* The DIVE event of the last dive whose pointers foreach has read, at
\* index p of the buffer: its address, its size and its pointers.
Common2LastDive(d) ==
    d.events[Highest({i \in DOMAIN d.events : Common2IsDive(d.events[i])})]

\* The last dive passed the range checks and is complete, so that its
\* fingerprint is compared.
Common2Compared(d) ==
    LET l == Common2Layout
        e == Common2LastDive(d)
    IN /\ e[4] >= l.rb_profile_begin /\ e[4] < l.rb_profile_end
       /\ e[5] >= l.rb_profile_begin /\ e[5] < l.rb_profile_end
       /\ e[5] # e[2]

\* The writes into the buffer, the pointer pair and the dive handed to the
\* callback lie inside the allocation and inside the bytes downloaded.
C28_PointersInside ==
    (dev.kind = "common2" /\ dev.allocs = 1) =>
       /\ Len(dev.data) = Common2Layout.rb_profile_end
                            - Common2Layout.rb_profile_begin + SZ_MINIMUM
       /\ Common2Top(dev) <= Len(dev.data)
       /\ dev.pc = "read" =>
             /\ dev.offset - dev.extra >= 0
             /\ dev.offset + dev.len <= Common2Top(dev)
       /\ (\E i \in DOMAIN dev.events : Common2IsDive(dev.events[i])) =>
             /\ dev.p >= SZ_MINIMUM
             /\ dev.p + 4 <= Common2Top(dev)
             /\ dev.p + Common2LastDive(dev)[3] <= Common2Top(dev)

\* C28: during the Common2 foreach every byte written into or read from the
\* dive buffer lies inside its allocation: the write offset less the
\* padding is not below 0, and the pointer pair, the fingerprint slice and
\* the dive handed to the callback lie within the bytes downloaded.
C28_ArenaBounds ==
    (dev.kind = "common2" /\ dev.allocs = 1) =>
       /\ dev.pc = "read" =>
             /\ dev.offset - dev.extra >= 0
             /\ dev.offset + dev.len <= Common2Top(dev)
       /\ (\E i \in DOMAIN dev.events : Common2IsDive(dev.events[i])) =>
             /\ dev.p >= SZ_MINIMUM
             /\ dev.p + 4 <= Common2Top(dev)
             /\ dev.p + Common2LastDive(dev)[3] <= Common2Top(dev)
             /\ Common2Compared(dev) =>
                   dev.p + Common2Layout.fingerprint + 4
                      + COMMON2_SZ_FINGERPRINT <= Common2Top(dev)

\* The newest dive has 5 bytes: the fingerprint compared with the stored
\* one starts at its last byte and continues in bytes never downloaded.
C28_SliceBehindDownload ==
    /\ dev.kind = "common2"
    /\ dev.allocs = 1
    /\ \E i \in DOMAIN dev.events : Common2IsDive(dev.events[i])
    /\ Common2Compared(dev)
    /\ Common2LastDive(dev)[3] = 5
    /\ dev.p + Common2LastDive(dev)[3] = Common2Top(dev)
    /\ dev.p + 4 + COMMON2_SZ_FINGERPRINT <= Len(dev.data)

\* The ring is full and the newest dive has 4 bytes: the fingerprint
\* compared lies behind the allocation.
C28_SliceBehindArena ==
    /\ dev.kind = "common2"
    /\ dev.allocs = 1
    /\ \E i \in DOMAIN dev.events : Common2IsDive(dev.events[i])
    /\ Common2Compared(dev)
    /\ Common2LastDive(dev)[3] = 4
    /\ dev.p + 4 = Len(dev.data)

(***************************************************************************)
(* The index of get_field (GASMIX, i) in the parsers with a cached gas mix *)
(* table.  The table is read when the call gets a destination and reaches  *)
(* the GASMIX case, which is when it returns SUCCESS.                      *)
(***************************************************************************)
GasmixAsked ==
    /\ Returned("get_field")
    /\ installed
    /\ family \in {"idive", "shearwater", "smart"}
    /\ ret.type = "GASMIX"

\* C29: get_field (GASMIX, i) of the iDive, Shearwater and Smart parsers
\* does not return SUCCESS for an index i at or above the count reported by
\* GASMIX_COUNT, and reads the cached table below its capacity only.
C29_GasmixIndexChecked ==
    (GasmixAsked /\ ret.status = "SUCCESS") =>
        /\ ret.flags < cache.ngasmixes
        /\ ret.hasvalue => ret.flags < GasmixCapacity(family)

\* A gas mix returned for the index 1 of a dive with at most one gas mix:
\* the slot of the table that the dive left as it was.
C29_BeyondCount ==
    /\ GasmixAsked
    /\ ret.status = "SUCCESS"
    /\ ret.hasvalue
    /\ ret.flags = 1
    /\ cache.ngasmixes <= 1
    /\ ret.value # <<>>

\* A gas mix returned for the index that is the capacity of the table: what
\* lies behind the table in memory (255).
C29_BeyondCapacity ==
    /\ GasmixAsked
    /\ ret.status = "SUCCESS"
    /\ ret.hasvalue
    /\ ret.flags = GasmixCapacity(family)
    /\ ret.g = 255
    /\ ret.value # <<>>
    /\ ret.value[1].oxygen = 255

\* A gas mix returned for an index below the count.
C29_BelowCount ==
    /\ GasmixAsked
    /\ ret.status = "SUCCESS"
    /\ ret.hasvalue
    /\ ret.flags = 1
    /\ cache.ngasmixes >= 2
    /\ ret.value # <<>>

(***************************************************************************)
(* foreach with no fingerprint: the stored fingerprint is all zero after   *)
(* the device is opened and after set_fingerprint with the size 0.         *)
(***************************************************************************)
\* A foreach with a callback that never asked to stop has returned SUCCESS
\* on a device without a fingerprint.
NoFingerprintDone ==
    /\ dev.fpsize = 0
    /\ dev.pc = "returned"
    /\ dev.status = "SUCCESS"
    /\ dev.cb
    /\ \A i \in DOMAIN dev.events :
          dev.events[i][1] = "CALL" => dev.events[i][Len(dev.events[i])]

\* Every dive that the device reports was passed to the callback: the
\* numbers last down to first of an iDive, every dive traversed in the ring
\* of a Common2 device, down to the begin of the profile.
AllDelivered ==
    IF dev.kind = "idive"
    THEN /\ Len(Calls(dev.events)) = dev.last - dev.first + 1
         /\ \A k \in 1..Len(Calls(dev.events)) :
               Calls(dev.events)[k][2] = dev.last - (k - 1)
    ELSE /\ dev.remaining = 0
         /\ \A i \in DOMAIN dev.events :
               Common2IsDive(dev.events[i]) =>
                  /\ i < Len(dev.events)
                  /\ dev.events[i + 1][1] = "CALL"

\* C30: with no fingerprint set, or with the fingerprint cleared by
\* set_fingerprint with the size 0, foreach does not stop on a fingerprint
\* match: when it returns SUCCESS and the callback never asked to stop,
\* every dive of the device was passed to the callback.
C30_NoFingerprintNoMatch == NoFingerprintDone => AllDelivered

\* Without a fingerprint foreach stops before the last dive only at a dive
\* whose fingerprint bytes equal the stored ones, which are all zero.
C30_StopsOnZero ==
    (NoFingerprintDone /\ ~AllDelivered) =>
        IF dev.kind = "idive"
        THEN /\ dev.fingerprint = 0
             /\ idive_header(dev, dev.last - Len(Calls(dev.events))).fp = 0
             /\ dev.events[Len(dev.events)]
                  = <<"ANS", "HEADER", dev.last - Len(Calls(dev.events))>>
        ELSE /\ dev.fingerprint = Zeros(COMMON2_SZ_FINGERPRINT)
             /\ common2_slice(dev) = Zeros(COMMON2_SZ_FINGERPRINT)
             /\ Common2IsDive(dev.events[Len(dev.events)])

\* An iDive without a fingerprint whose newest dive has the fingerprint
\* bytes 0: foreach returns before any callback.
C30_ClearedStops ==
    /\ NoFingerprintDone
    /\ dev.kind = "idive"
    /\ dev.last >= dev.first
    /\ idive_header(dev, dev.last).fp = 0
    /\ Calls(dev.events) = <<>>

\* A Common2 device without a fingerprint whose second dive has fingerprint
\* bytes that are all zero: foreach returns after one callback.
C30_ZeroDive ==
    /\ NoFingerprintDone
    /\ dev.kind = "common2"
    /\ Common2IsDive(dev.events[Len(dev.events)])
    /\ Len(Calls(dev.events)) = 1
    /\ common2_slice(dev) = Zeros(COMMON2_SZ_FINGERPRINT)

\* Devices without a fingerprint whose dives all differ from zero: two
\* dives delivered.
C30_Delivered ==
    /\ NoFingerprintDone
    /\ AllDelivered
    /\ Len(Calls(dev.events)) = 2

=============================================================================
